---------------------------- MODULE Spec2Model ----------------------------
(***************************************************************************)
(* A model of asyncvnc (src/asyncvnc.py): the RFB video session (Video),   *)
(* the update-message loop (Client.read) and the blocking screenshot       *)
(* operation (Client.screenshot).                                          *)
(*                                                                         *)
(* Conventions.                                                            *)
(*  - A byte string is a sequence of numbers 0..255.                       *)
(*  - Python's None is the empty sequence <<>> and a present value v is    *)
(*    the one-element sequence <<v>> (None / Some).                        *)
(*  - The pixel buffer (a numpy array of shape height x width x 4) is a    *)
(*    function from <<row, col>> (0-based, as in the code) to a 4-tuple of *)
(*    bytes; channel k of the code (0-based) is position k+1 of the tuple. *)
(*  - Bytes arriving on the StreamReader are inputs, chosen by \E when a   *)
(*    step reads them; nread and vread count the bytes consumed.           *)
(*  - An exception leaving create or a read ends the session: pc =         *)
(*    "failed" and err names the exception.  An OverflowError of refresh   *)
(*    is raised before anything is written and leaves the session as it    *)
(*    was.                                                                 *)
(***************************************************************************)
EXTENDS Integers, Sequences, FiniteSets, TLC

(***************************************************************************)
(* Bounds of the model.                                                    *)
(***************************************************************************)
\* The negotiated framebuffer holds at most MaxPixels pixels (width*height).
MaxPixels == 4
\* Where a session reads updates, its width and its height are at most
\* MaxSide.
MaxSide == 2
\* An update message announces at most MaxCount rectangles.
MaxCount == 2
\* At most MaxZlib ZLib rectangles are fed to the decompressor per session.
MaxZlib == 2
\* The sliding window of the decompressor, in bytes (32768 in zlib).
Window == 8
\* detect_screens is run on every mask of at most MaxCells cells.
MaxCells == 6

None == <<>>
Some(v) == <<v>>

(***************************************************************************)
(* Integers on the wire.                                                   *)
(***************************************************************************)
\* int.from_bytes(bs, 'big')
RECURSIVE FromBytes(_)
FromBytes(bs) ==
    IF bs = <<>> THEN 0
    ELSE FromBytes(SubSeq(bs, 1, Len(bs) - 1)) * 256 + bs[Len(bs)]

\* read_int(reader, length) applied to the bytes readexactly(length) returned
read_int(bs) == FromBytes(bs)

\* n.to_bytes(length, 'big'); OverflowError (None here) when n does not fit
RECURSIVE ToBytes(_, _)
ToBytes(n, length) ==
    IF length = 0 THEN (IF n = 0 THEN Some(<<>>) ELSE None)
    ELSE IF n < 0 THEN None
    ELSE LET hi == ToBytes(n \div 256, length - 1)
         IN  IF hi = None THEN None ELSE Some(Append(hi[1], n % 256))

\* The wire form of a 16-bit and of a 32-bit number, as a server writes it
U16(n) == <<(n \div 256) % 256, n % 256>>
U32(n) == <<(n \div 16777216) % 256, (n \div 65536) % 256,
           (n \div 256) % 256, n % 256>>

(***************************************************************************)
(* Pixel formats and channel orders.                                       *)
(***************************************************************************)
bgra == <<"b", "g", "r", "a">>
rgba == <<"r", "g", "b", "a">>
argb == <<"a", "r", "g", "b">>
abgr == <<"a", "b", "g", "r">>

\* The keys of video_modes
FmtBGRA == <<32, 24, 0, 1, 0, 255, 0, 255, 0, 255, 16, 8, 0>>
FmtRGBA == <<32, 24, 0, 1, 0, 255, 0, 255, 0, 255, 0, 8, 16>>
FmtARGB == <<32, 24, 1, 1, 0, 255, 0, 255, 0, 255, 16, 8, 0>>
FmtABGR == <<32, 24, 1, 1, 0, 255, 0, 255, 0, 255, 0, 8, 16>>

\* video_modes.get(key)
video_modes_get(key) ==
    IF key = FmtBGRA THEN Some(bgra)
    ELSE IF key = FmtRGBA THEN Some(rgba)
    ELSE IF key = FmtARGB THEN Some(argb)
    ELSE IF key = FmtABGR THEN Some(abgr)
    ELSE None

\* mode.index(ch), 0-based
ModeIndex(m, ch) == (CHOOSE i \in 1..4 : m[i] = ch) - 1

\* A buggy variant: the flag bytes are compared as they arrive
NoMask(rec) == rec

\* mode_data[2] &= 1; mode_data[3] &= 1
MaskFlags(rec) == [rec EXCEPT ![3] = rec[3] % 2, ![4] = rec[4] % 2]

\* The messages Video.create writes
SetPixelFormatMsg ==
    <<0, 0, 0, 0, 32, 24, 0, 1, 0, 255, 0, 255, 0, 255, 0, 8, 16, 0, 0, 0>>
\* A variant: two encodings are announced, Raw (0) and then ZLib (6)
SetEncodingsRawZLib == <<2, 0, 0, 2, 0, 0, 0, 0, 0, 0, 0, 6>>

\* writer.write(b'\x02\x00\x00\x01\x00\x00\x00\x06')
SetEncodingsMsg == <<2, 0, 0, 1, 0, 0, 0, 6>>


(***************************************************************************)
(* The pixel buffer.                                                       *)
(***************************************************************************)
Pixels(W, H) == (0 .. H - 1) \X (0 .. W - 1)

\* np.zeros((height, width, 4), 'B')
Zeros(W, H) == [p \in Pixels(W, H) |-> <<0, 0, 0, 0>>]

\* The indices that the slice [start : start + n] selects on an axis of dim
SliceIdx(start, n, dim) == {i \in 0 .. dim - 1 : start <= i /\ i < start + n}

\* The cells of data[y:y + h, x:x + w]
Region(W, H, x, y, w, h) == SliceIdx(y, h, H) \X SliceIdx(x, w, W)

\* numpy assigns an array of shape (h, w, 4) to a slice of shape (dh, dw, 4)
\* when each source axis has the slice's length or length 1 (broadcast)
Broadcastable(W, H, x, y, w, h) ==
    /\ (h = Cardinality(SliceIdx(y, h, H)) \/ h = 1)
    /\ (w = Cardinality(SliceIdx(x, w, W)) \/ w = 1)

\* A buggy variant: every cell gets the first pixel of the payload
SrcPixelFirst(bytes, w, r, c) == <<bytes[1], bytes[2], bytes[3], bytes[4]>>

\* np.ndarray((h, w, 4), 'B', bytes)[r, c]: row-major, 4 bytes per pixel
SrcPixel(bytes, w, r, c) ==
    LET o == (r * w + c) * 4
    IN  <<bytes[o + 1], bytes[o + 2], bytes[o + 3], bytes[o + 4]>>

\* A buggy variant: every rectangle is written to a fresh buffer
ReallocateRect(buf, W, H, x, y, w, h, bytes) ==
    LET reg == Region(W, H, x, y, w, h)
    IN  [p \in Pixels(W, H) |->
            IF p \in reg THEN SrcPixel(bytes, w, p[1] - y, p[2] - x)
            ELSE <<0, 0, 0, 0>>]

\* self.data[y:y + height, x:x + width] = np.ndarray((height, width, 4), 'B', data)
AssignRect(buf, W, H, x, y, w, h, bytes) ==
    LET reg == Region(W, H, x, y, w, h)
    IN  [p \in Pixels(W, H) |->
            IF p \in reg THEN SrcPixel(bytes, w, p[1] - y, p[2] - x) ELSE buf[p]]

\* A buggy variant: the alpha bytes of the payload are kept
KeepAlpha(buf, W, H, x, y, w, h, a) == buf

\* self.data[y:y + height, x:x + width, self.mode.index('a')] = 255
SetAlpha(buf, W, H, x, y, w, h, a) ==
    LET reg == Region(W, H, x, y, w, h)
    IN  [p \in Pixels(W, H) |->
            IF p \in reg THEN [buf[p] EXCEPT ![a + 1] = 255] ELSE buf[p]]

\* A buggy variant: any allocated buffer counts as complete
IsAllocated(d, m) == d # None

\* A buggy variant: all() over every channel, not over the alpha channel
AllBytesNonZero(d, m) ==
    IF d = None THEN FALSE
    ELSE \A p \in DOMAIN d[1] : \A k \in 1 .. 4 : d[1][p][k] # 0

\* Video.is_complete: the alpha channel holds no zero (numpy's all())
is_complete(d, m) ==
    IF d = None THEN FALSE
    ELSE \A p \in DOMAIN d[1] : d[1][p][ModeIndex(m, "a") + 1] # 0

\* A buggy variant: the buffer is handed out in the order it is stored in
AsStored(d, m, W, H) == IF d = None THEN Zeros(W, H) ELSE d[1]

\* Video.as_rgba
as_rgba(d, m, W, H) ==
    IF d = None THEN Zeros(W, H)
    ELSE IF m = rgba THEN d[1]
    ELSE IF m = abgr
         THEN [p \in DOMAIN d[1] |->
                  <<d[1][p][4], d[1][p][3], d[1][p][2], d[1][p][1]>>]
    ELSE [p \in DOMAIN d[1] |->
             <<d[1][p][ModeIndex(m, "r") + 1], d[1][p][ModeIndex(m, "g") + 1],
               d[1][p][ModeIndex(m, "b") + 1], d[1][p][ModeIndex(m, "a") + 1]>>]

(***************************************************************************)
(* The streaming decompressor (zlib.decompressobj).  Compressed data are   *)
(* modelled as LZ77 tokens, one token per compressed byte: <<0, b, 0>> is  *)
(* the literal byte b and <<1, dist, len>> copies len bytes starting dist  *)
(* bytes back in the output produced so far.  The context is the sliding   *)
(* window: the last Window bytes of output.                                *)
(***************************************************************************)
Slide(hist) ==
    IF Len(hist) <= Window THEN hist
    ELSE SubSeq(hist, Len(hist) - Window + 1, Len(hist))

RECURSIVE CopyBack(_, _, _, _)
CopyBack(hist, dist, n, out) ==
    IF n = 0 THEN [z |-> hist, out |-> out]
    ELSE LET b == hist[Len(hist) - dist + 1]
         IN  CopyBack(Slide(Append(hist, b)), dist, n - 1, Append(out, b))

RECURSIVE Inflate(_, _, _)
Inflate(hist, toks, out) ==
    IF toks = <<>> THEN [ok |-> TRUE, z |-> hist, out |-> out]
    ELSE LET t == Head(toks)
         IN  IF t[1] = 0
             THEN Inflate(Slide(Append(hist, t[2])), Tail(toks), Append(out, t[2]))
             ELSE IF t[2] < 1 \/ t[2] > Len(hist)
             THEN [ok |-> FALSE, z |-> hist, out |-> out]   \* zlib.error
             ELSE LET c == CopyBack(hist, t[2], t[3], out)
                  IN  Inflate(c.z, Tail(toks), c.out)

\* A buggy variant: a fresh decompressor for every rectangle
DecompressFresh(z, toks) == Inflate(<<>>, toks, <<>>)

\* self.decompress(data): the session's one decompressor, fed the next chunk
Decompress(z, toks) == Inflate(z, toks, <<>>)

\* decompressobj(): a new context, nothing in its window
decompressobj == <<>>

(***************************************************************************)
(* Video.refresh and Video.read as functions of the session state and of   *)
(* the bytes read.                                                         *)
(***************************************************************************)
\* A buggy variant: always a full update of the whole frame
RefreshFull(d, W, H, x, y, w, h) ==
    Some(<<3, 0>> \o U16(0) \o U16(0) \o U16(W) \o U16(H))

\* The request Video.refresh writes (None: to_bytes raised OverflowError)
RefreshMsg(d, W, H, x, y, w, h) ==
    LET incremental == IF d # None THEN 1 ELSE 0
        width_  == IF w = None THEN W ELSE w[1]
        height_ == IF h = None THEN H ELSE h[1]
        bi == ToBytes(incremental, 1)
        bx == ToBytes(x, 2)
        by == ToBytes(y, 2)
        bw == ToBytes(width_, 2)
        bh == ToBytes(height_, 2)
    IN  IF None \in {bi, bx, by, bw, bh} THEN None
        ELSE Some(<<3>> \o bi[1] \o bx[1] \o by[1] \o bw[1] \o bh[1])

\* A buggy variant: every encoding but ZLib is read as Raw
IsNotZLib(encoding) == encoding # 6

\* if encoding == 0:  # Raw
IsRaw(encoding) == encoding = 0

\* elif encoding == 6:  # ZLib
IsZLib(encoding) == encoding = 6

\* What lines 164-167 raise on the body bytes of a rectangle (x, y, w, h),
\* "" when they raise nothing
BodyError(W, H, x, y, w, h, bytes) ==
    IF Len(bytes) < h * w * 4      \* np.ndarray: buffer is too small
    THEN "TypeError"
    ELSE IF ~Broadcastable(W, H, x, y, w, h)
    THEN "ValueError: broadcast"
    ELSE ""

\* Video.read on a 12-byte header hdr and a body: raw is what readexactly
\* returns for a Raw rectangle (as many bytes as the header asks for), zlen
\* and ztoks are the length field and the compressed data of a ZLib one.
\* The result: err ("" when it returns), the buffer, the decompressor, the
\* bytes consumed, whether the decompressor was fed, and the decoded bytes.
video_read(d, z, m, W, H, hdr, raw, zlen, ztoks) ==
    LET x == read_int(SubSeq(hdr, 1, 2))
        y == read_int(SubSeq(hdr, 3, 4))
        w == read_int(SubSeq(hdr, 5, 6))
        h == read_int(SubSeq(hdr, 7, 8))
        encoding == read_int(SubSeq(hdr, 9, 12))
        inf == Decompress(z, ztoks)
        d1 == IF d = None THEN Some(Zeros(W, H)) ELSE d
        a == ModeIndex(m, "a")
        \* lines 164-167, once the body gave bytes
        store(bytes, z1, used, fed) ==
            IF BodyError(W, H, x, y, w, h, bytes) # ""
            THEN [err |-> BodyError(W, H, x, y, w, h, bytes), data |-> d1,
                  z |-> z1, used |-> used, fed |-> fed, out |-> bytes]
            ELSE [err |-> "", z |-> z1, used |-> used, fed |-> fed, out |-> bytes,
                  data |-> Some(SetAlpha(AssignRect(d1[1], W, H, x, y, w, h, bytes),
                                         W, H, x, y, w, h, a))]
    IN  IF IsRaw(encoding)
        THEN store(raw, z, 12 + h * w * 4, FALSE)
        ELSE IF IsZLib(encoding)
        THEN IF inf.ok
             THEN store(inf.out, inf.z, 12 + 4 + read_int(zlen), TRUE)
             ELSE [err |-> "zlib.error", data |-> d, z |-> inf.z,
                   used |-> 12 + 4 + read_int(zlen), fed |-> TRUE, out |-> inf.out]
        ELSE [err |-> "ValueError: encoding", data |-> d, z |-> z, used |-> 12,
              fed |-> FALSE, out |-> <<>>]

(***************************************************************************)
(* Screen and its score.  A Fraction is a pair <<numerator, denominator>>  *)
(* in lowest terms; a score is a float, with the rounding of the code's    *)
(* double-precision arithmetic.                                            *)
(***************************************************************************)
\* Screen(x, y, width, height)
Screen(x, y, w, h) == [x |-> x, y |-> y, width |-> w, height |-> h]

RECURSIVE GCD(_, _)
GCD(a, b) == IF b = 0 THEN a ELSE GCD(b, a % b)

\* Fraction(n, d), positive n and d
Fraction(n, d) == <<n \div GCD(n, d), d \div GCD(n, d)>>

Abs(n) == IF n < 0 THEN -n ELSE n

\* The loop of Fraction.limit_denominator: the convergents of n/d until
\* the next denominator would pass max
RECURSIVE Convergents(_, _, _, _, _, _, _)
Convergents(p0, q0, p1, q1, n, d, max) ==
    LET a == n \div d
        q2 == q0 + a * q1
    IN  IF q2 > max THEN <<p0, q0, p1, q1>>
        ELSE Convergents(p1, q1, p0 + a * p1, q2, d, n - a * d, max)

\* Fraction.limit_denominator(max): the closest fraction to f whose
\* denominator is at most max
limit_denominator(f, max) ==
    IF f[2] <= max THEN f
    ELSE LET c == Convergents(0, 1, 1, 0, f[1], f[2], max)
             k == (max - c[2]) \div c[4]
             bound1 == <<c[1] + k * c[3], c[2] + k * c[4]>>
             bound2 == <<c[3], c[4]>>
         IN  IF Abs(bound2[1] * f[2] - f[1] * bound2[2]) * bound1[2]
                   <= Abs(bound1[1] * f[2] - f[1] * bound1[2]) * bound2[2]
             THEN Fraction(bound2[1], bound2[2])
             ELSE Fraction(bound1[1], bound1[2])

\* Common screen aspect ratios
screen_ratios ==
    { Fraction(3, 2), Fraction(4, 3), Fraction(16, 10), Fraction(16, 9),
      Fraction(32, 9), Fraction(64, 27) }

\* min() of two Fractions
MinFraction(f, g) == IF f[1] * g[2] <= g[1] * f[2] THEN f ELSE g

\* A float (IEEE 754 double) other than 0.0 is <<e, a, b, c>>: its
\* significand, 53 binary digits of which the first is 1, is cut into a (17
\* digits), b and c (18 digits each), and its value is
\* (a * 2^36 + b * 2^18 + c) * 2^(e - 52).  0.0 is <<MinExp, 0, 0, 0>>.
\* The integers that are multiplied are below 2^13 and the numerators and
\* denominators that are divided below 2^12, so that no product passes the
\* width of an integer of the model.
Limb == 2 ^ 18
Top == 2 ^ 16
MinExp == -1075
Zero == <<MinExp, 0, 0, 0>>

\* The one element of the set S
Pick(S) == CHOOSE x \in S : TRUE

\* The number of binary digits of n, 1 <= n < 2^30
BitLength(n) == CHOOSE k \in 1 .. 30 : 2 ^ (k - 1) <= n /\ n < 2 ^ k

\* Round to nearest, ties to even: the float nearest to the number of
\* significand <<a, b, c>> and exponent e that is followed by the digit
\* guard and then by digits that are not all 0 iff sticky
Round(e, a, b, c, guard, sticky) ==
    IF ~(guard = 1 /\ (sticky \/ c % 2 = 1)) THEN <<e, a, b, c>>
    ELSE IF c + 1 < Limb THEN <<e, a, b, c + 1>>
    ELSE IF b + 1 < Limb THEN <<e, a, b + 1, 0>>
    ELSE IF a + 1 < 2 * Top THEN <<e, a + 1, 0, 0>>
    ELSE <<e + 1, Top, 0, 0>>

\* float(n) of an int n, 1 <= n < 2^13 (exact)
FloatOfInt(n) ==
    Pick({ <<k - 1, n * 2 ^ (17 - k), 0, 0>> : k \in {BitLength(n)} })

\* The power of two by which n / d lies in [1, 2): n / d = q * 2^e with
\* 1 <= q < 2
Exponent(n, d) ==
    IF n >= d THEN BitLength(n \div d) - 1
    ELSE -(CHOOSE k \in 1 .. 12 : d <= n * 2 ^ k /\ n * 2 ^ k < 2 * d)

\* n / d brought into [1, 2): <<e, n1, d1>> with n / d = (n1 / d1) * 2^e
\* and d1 <= n1 < 2 * d1
Scaled(n, d) ==
    Pick({ <<e, IF e < 0 THEN n * 2 ^ (-e) ELSE n,
                IF e > 0 THEN d * 2 ^ e ELSE d>> : e \in {Exponent(n, d)} })

\* n / d of two positive ints below 2^12, correctly rounded (int true
\* division, which is Fraction.__float__): long division, 16, 18 and 18
\* digits at a time, then the guard digit
FloatDiv(n, d) ==
    Pick({ LET d1 == z[3]
               r0 == z[2] - d1
               r1 == (r0 * Top) % d1
               r2 == (r1 * Limb) % d1
               r3 == (r2 * Limb) % d1
           IN  Round(z[1],
                     Top + (r0 * Top) \div d1,
                     (r1 * Limb) \div d1,
                     (r2 * Limb) \div d1,
                     (2 * r3) \div d1,
                     (2 * r3) % d1 # 0) :
           z \in {Scaled(n, d)} })

\* f * 0.5 (exact)
Half(f) ==
    Pick({ IF g = Zero THEN Zero ELSE <<g[1] - 1, g[2], g[3], g[4]>> :
           g \in {f} })

\* The product of the int n and the significand of f, cut like a
\* significand: <<pa, pb, pc>> stands for pa * 2^36 + pb * 2^18 + pc
Product(n, f) ==
    Pick({ <<n * f[2] + pb \div Limb, pb % Limb, (n * f[4]) % Limb>> :
           pb \in {n * f[3] + (n * f[4]) \div Limb} })

\* float(n) * f of an int n, 1 <= n < 2^13, correctly rounded: the product
\* of n and the significand, cut back to 53 digits
FloatMulInt(n, f) ==
    Pick({ IF g = Zero THEN Zero
           ELSE Pick({ IF p[2] = 17 THEN <<g[1], p[1][1], p[1][2], p[1][3]>>
                       ELSE LET s == p[2] - 17
                                cut == 2 ^ s
                                fill == 2 ^ (18 - s)
                                dropped == p[1][3] % cut
                            IN  Round(g[1] + s,
                                      p[1][1] \div cut,
                                      (p[1][1] % cut) * fill + p[1][2] \div cut,
                                      (p[1][2] % cut) * fill + p[1][3] \div cut,
                                      dropped \div 2 ^ (s - 1),
                                      dropped % 2 ^ (s - 1) # 0) :
                       p \in { <<q, BitLength(q[1])>> : q \in {Product(m, g)} } }) :
           g \in {f}, m \in {n} })

\* A buggy variant: the penalty for an unusual shape is left out
AreaOnly(s) == FloatOfInt(s.width * s.height)

\* Screen.score: float arithmetic; the ratios are Fractions
score(s) ==
    Pick({ IF {r[1], r[2]} \cap screen_ratios # {}
           THEN FloatOfInt(area)
           ELSE IF MinFraction(r[1], r[2])[1] = 0 THEN Zero
           ELSE FloatMulInt(area, Half(FloatDiv(MinFraction(r[1], r[2])[1],
                                                MinFraction(r[1], r[2])[2]))) :
           r \in { <<limit_denominator(Fraction(s.width, s.height), 64),
                     limit_denominator(Fraction(s.height, s.width), 64)>> },
           area \in {s.width * s.height} })

\* The order of two scores (floats that are not negative)
ScoreLess(a, b) ==
    \E x \in {a}, y \in {b} :
        \E i \in 1 .. 4 : x[i] < y[i] /\ \A j \in 1 .. i - 1 : x[j] = y[j]

(***************************************************************************)
(* Video.detect_screens.  The padded mask is a function from <<row, col>>  *)
(* in (0 .. H + 1) \X (0 .. W + 1) to 0 or 1; mask_a, mask_b, mask_c and   *)
(* mask_d are views of it, of shape (H + 1) x (W + 1).                     *)
(***************************************************************************)
\* self.data[:, :, self.mode.index('a')]
AlphaMask(buf, m) == [p \in DOMAIN buf |-> buf[p][ModeIndex(m, "a") + 1]]

\* np.pad(mask // 255, ((1, 1), (1, 1))).astype(np.int8): a new array
Pad(mask, W, H) ==
    [q \in (0 .. H + 1) \X (0 .. W + 1) |->
        IF q[1] \in 1 .. H /\ q[2] \in 1 .. W
        THEN mask[<<q[1] - 1, q[2] - 1>>] \div 255
        ELSE 0]

\* The index sets of the views
ViewIdx(W, H) == (0 .. H) \X (0 .. W)

\* mask[1:, 1:], mask[1:, :-1], mask[:-1, 1:], mask[:-1, :-1] at [i, j]
mask_a(P, i, j) == P[<<i + 1, j + 1>>]
mask_b(P, i, j) == P[<<i + 1, j>>]
mask_c(P, i, j) == P[<<i, j + 1>>]
mask_d(P, i, j) == P[<<i, j>>]

\* x & y on int8 for x, y in {-1, 0, 1} (two's complement)
BitAnd(x, y) ==
    IF x = -1 THEN y
    ELSE IF y = -1 THEN x
    ELSE IF x = 1 /\ y = 1 THEN 1
    ELSE 0

\* np.argwhere(mask_b - mask_a & mask_c - mask_a == -1), and the like
TopLeft(P, W, H) ==
    {q \in ViewIdx(W, H) :
        BitAnd(mask_b(P, q[1], q[2]) - mask_a(P, q[1], q[2]),
               mask_c(P, q[1], q[2]) - mask_a(P, q[1], q[2])) = -1}
TopRight(P, W, H) ==
    {q \in ViewIdx(W, H) :
        BitAnd(mask_a(P, q[1], q[2]) - mask_b(P, q[1], q[2]),
               mask_d(P, q[1], q[2]) - mask_b(P, q[1], q[2])) = -1}
BottomLeft(P, W, H) ==
    {q \in ViewIdx(W, H) :
        BitAnd(mask_d(P, q[1], q[2]) - mask_c(P, q[1], q[2]),
               mask_a(P, q[1], q[2]) - mask_c(P, q[1], q[2])) = -1}
BottomRight(P, W, H) ==
    {q \in ViewIdx(W, H) :
        BitAnd(mask_c(P, q[1], q[2]) - mask_d(P, q[1], q[2]),
               mask_b(P, q[1], q[2]) - mask_d(P, q[1], q[2])) = -1}

\* A buggy variant: a rectangle needs all four of its corners
FourCorners(a, b, c, d) ==
    IF /\ a[1] = b[1] /\ a[2] < b[2]
       /\ c[1] = d[1] /\ c[2] < d[2]
       /\ a[2] = c[2] /\ a[1] < c[1]
       /\ b[2] = d[2] /\ b[1] < d[1]
    THEN {<<a[2], a[1], d[2], d[1]>>}
    ELSE {}

\* The rectangles (x0, y0, x1, y1) one combination of corners adds to rects;
\* a corner is <<row, col>>, a[0] of the code is a[1] here
RectsOf(a, b, c, d) ==
    LET ab == a[1] = b[1] /\ a[2] < b[2]   \* top
        cd == c[1] = d[1] /\ c[2] < d[2]   \* bottom
        ac == a[2] = c[2] /\ a[1] < c[1]   \* left
        bd == b[2] = d[2] /\ b[1] < d[1]   \* right
    IN  (IF ab /\ ac THEN {<<a[2], a[1], b[2], c[1]>>} ELSE {})
        \cup (IF ab /\ bd THEN {<<a[2], a[1], d[2], d[1]>>} ELSE {})
        \cup (IF cd /\ ac THEN {<<a[2], a[1], d[2], d[1]>>} ELSE {})
        \cup (IF cd /\ bd THEN {<<c[2], b[1], d[2], d[1]>>} ELSE {})

\* rects, after the loop over product(...) of the four corner lists
Rects(P, W, H) ==
    UNION { RectsOf(a, b, c, d) :
              a \in TopLeft(P, W, H), b \in TopRight(P, W, H),
              c \in BottomLeft(P, W, H), d \in BottomRight(P, W, H) }

\* candidates, as a set
Candidates(P, W, H) ==
    { Screen(r[1], r[2], r[3] - r[1], r[4] - r[2]) : r \in Rects(P, W, H) }

\* The cells of mask_a that screen.slices selects (slices are clipped)
SliceCells(sc, W, H) ==
    {q \in ViewIdx(W, H) :
        /\ sc.y <= q[1] /\ q[1] < sc.y + sc.height
        /\ sc.x <= q[2] /\ q[2] < sc.x + sc.width}

\* A buggy variant: any() in the place of all()
SomeFilled(P, sc, W, H) == \E q \in SliceCells(sc, W, H) : mask_a(P, q[1], q[2]) # 0

\* mask_a[screen.slices].all()
AllFilled(P, sc, W, H) == \A q \in SliceCells(sc, W, H) : mask_a(P, q[1], q[2]) # 0

\* A buggy variant: the best candidate is taken without the all() test
AcceptUnfilled(P, W, H) ==
    {sc \in Candidates(P, W, H) :
        \A o \in Candidates(P, W, H) : ~ScoreLess(score(sc), score(o))}

\* The screens the for loop may accept.  The candidates are sorted by score,
\* highest first, and the first one that is entirely filled is taken;
\* among candidates of equal score the order is the iteration order of the
\* set rects, which is not modelled: any of them may come first.
Acceptable(P, W, H) ==
    UNION { {sc \in filled : \A o \in filled : ~ScoreLess(score(sc), score(o))} :
              filled \in {{sc \in Candidates(P, W, H) : AllFilled(P, sc, W, H)}} }

\* A buggy variant: nothing is consumed
KeepRegion(P, sc, W, H) == P

\* mask_a[screen.slices] = 0: writes through the view into the padded mask
ZeroRegion(P, sc, W, H) ==
    [q \in DOMAIN P |->
        IF <<q[1] - 1, q[2] - 1>> \in SliceCells(sc, W, H) THEN 0 ELSE P[q]]

\* A buggy variant: the mask is a view of the buffer, so that consuming a
\* region clears the alpha bytes of the buffer
ConsumeInBuffer(d, m, sc, W, H) ==
    Some([p \in DOMAIN d[1] |->
            IF p \in SliceCells(sc, W, H)
            THEN [d[1][p] EXCEPT ![ModeIndex(m, "a") + 1] = 0]
            ELSE d[1][p]])

\* The buffer after a round: mask // 255 made a new array, so that the
\* rounds write to the padded mask only
BufferAfterRound(d, m, sc, W, H) == d

(***************************************************************************)
(* read_text: data.decode('utf-8').  A text is the sequence of its code    *)
(* points.                                                                 *)
(***************************************************************************)
\* A continuation byte
IsCont(b) == 128 <= b /\ b <= 191

\* The length of the character that begins with lead byte b and whose next
\* byte is b2 (0 when there is none): 0 when no character begins so
Utf8Len(b, b2) ==
    IF b < 128 THEN 1
    ELSE IF 194 <= b /\ b <= 223 THEN 2
    ELSE IF b = 224 THEN (IF 160 <= b2 /\ b2 <= 191 THEN 3 ELSE 0)
    ELSE IF b = 237 THEN (IF 128 <= b2 /\ b2 <= 159 THEN 3 ELSE 0)
    ELSE IF 225 <= b /\ b <= 239 THEN 3
    ELSE IF b = 240 THEN (IF 144 <= b2 /\ b2 <= 191 THEN 4 ELSE 0)
    ELSE IF b = 244 THEN (IF 128 <= b2 /\ b2 <= 143 THEN 4 ELSE 0)
    ELSE IF 241 <= b /\ b <= 243 THEN 4
    ELSE 0

\* The code point of a well-formed character of n bytes
RECURSIVE Utf8Point(_, _)
Utf8Point(bs, n) ==
    IF n = 1 THEN (IF Len(bs) = 1 THEN bs[1]
                   ELSE IF Len(bs) = 2 THEN bs[1] % 32
                   ELSE IF Len(bs) = 3 THEN bs[1] % 16
                   ELSE bs[1] % 8)
    ELSE Utf8Point(bs, n - 1) * 64 + (bs[n] % 64)

\* bytes.decode('utf-8'): None when the bytes are no UTF-8
\* (UnicodeDecodeError), the text otherwise
RECURSIVE Utf8Decode(_)
Utf8Decode(bs) ==
    IF bs = <<>> THEN Some(<<>>)
    ELSE LET n == Utf8Len(bs[1], IF Len(bs) >= 2 THEN bs[2] ELSE 0)
         IN  IF n = 0 \/ n > Len(bs)
                \/ \E k \in 2 .. n : ~IsCont(bs[k])
             THEN None
             ELSE LET rest == Utf8Decode(SubSeq(bs, n + 1, Len(bs)))
                  IN  IF rest = None THEN None
                      ELSE Some(<<Utf8Point(SubSeq(bs, 1, n), n)>> \o rest[1])

(***************************************************************************)
(* The inputs: what the server sends and what the caller passes.           *)
(***************************************************************************)
\* The framebuffer sizes of ServerInit
Dims == {d \in (1 .. MaxSide) \X (1 .. MaxSide) : d[1] * d[2] <= MaxPixels}

\* The pixel-format records of ServerInit: a known format (argb, alpha
\* first) with stray high bits in its big-endian flag, and a 16-bit format
\* (unknown: the session falls back to rgba, alpha last).
FormatRecords ==
    { [FmtARGB EXCEPT ![3] = 3],
      <<16, 16, 0, 1, 0, 31, 0, 63, 0, 31, 11, 5, 0>> }

\* Every kind of pixel-format record: the four formats of video_modes as
\* they stand and with stray high bits in their flag bytes, a record whose
\* true-colour flag has its low bit clear, a 24-bit and a 16-bit format
AllFormatRecords ==
    { FmtBGRA, FmtRGBA, FmtARGB, FmtABGR,
      [FmtBGRA EXCEPT ![3] = 2, ![4] = 3],
      [FmtABGR EXCEPT ![3] = 255, ![4] = 255],
      [FmtRGBA EXCEPT ![4] = 2],
      [FmtRGBA EXCEPT ![1] = 24],
      <<16, 16, 0, 1, 0, 31, 0, 63, 0, 31, 11, 5, 0>> }

\* The desktop names of ServerInit, as bytes: "VNC", and a byte that is no
\* UTF-8
Names == {<<86, 78, 67>>, <<255>>}

\* Every kind of name: the empty one, one of two-byte and one of three-byte
\* characters, a character cut short, an overlong form and a surrogate
AllNames ==
    Names \cup { <<>>, <<195, 169>>, <<226, 130, 172, 65>>, <<195>>,
                 <<224, 128, 128>>, <<237, 160, 128>> }

\* The update-type bytes the server may send
UpdateTypeBytes == {0, 1, 255}

\* The rectangle geometries of a header: every rectangle inside the frame,
\* the empty one, one that starts past the right edge and one that is wider
\* than the frame
Geoms(W, H) ==
    {g \in [x : 0 .. W - 1, y : 0 .. H - 1, w : 1 .. W, h : 1 .. H] :
        g.x + g.w <= W /\ g.y + g.h <= H}
    \cup { [x |-> 0, y |-> 0, w |-> 0, h |-> 0],
           [x |-> W, y |-> 0, w |-> 1, h |-> 1],
           [x |-> 0, y |-> 0, w |-> W + 1, h |-> 1] }

\* A rectangle header as the server writes it
Header(g, enc) == U16(g.x) \o U16(g.y) \o U16(g.w) \o U16(g.h) \o U32(enc)

\* The body of a Raw rectangle: n bytes, byte i being (251 + i) mod 256, so
\* that 255 and 0 turn up in every channel position
RawBody(n) == [i \in 1 .. n |-> (251 + i) % 256]

\* The compressed data of a ZLib rectangle: four literal bytes (one pixel),
\* and a copy of the four bytes before (the pixel of the rectangle before)
Lit4 == <<<<0, 10, 0>>, <<0, 20, 0>>, <<0, 30, 0>>, <<0, 0, 0>>>>
Back4 == <<<<1, 4, 4>>>>
ZPayloads == {Lit4, Back4}

\* The frame sizes at which the server compresses: it sends ZLib rectangles
\* to these frames, and Raw ones to every frame
ZDims == {<<1, 1>>, <<2, 1>>}

\* What the server may send as one rectangle: Raw (0) with a body of the
\* announced size, ZLib (6) with compressed data, CopyRect (1)
RectInputs(W, H) ==
    [g : Geoms(W, H), enc : {0}, toks : {<<>>}]
    \cup [g : IF <<W, H>> \in ZDims THEN Geoms(W, H) ELSE {}, enc : {6},
          toks : ZPayloads]
    \cup [g : {[x |-> 0, y |-> 0, w |-> 1, h |-> 1]}, enc : {1}, toks : {<<>>}]

\* The frames detect_screens and as_rgba are run on: every one of at most
\* MaxCells cells with every pattern of written cells, and, every cell
\* written, a frame whose sides have no common factor and pass 64, a frame
\* whose score is not the exact product, a frame of which width / height
\* limited to the denominator 64 is 27/64 while height / width is not 64/27,
\* and a frame of which height / width limited so is 0
MaskDims == {d \in (1 .. MaxCells) \X (1 .. MaxCells) : d[1] * d[2] <= MaxCells}
BigDims == {<<65, 64>>, <<5, 39>>, <<35, 83>>, <<129, 1>>}

\* The buffer in which Raw rectangles have written the cells S: a written
\* cell holds payload bytes that tell the cells and the channels apart, and
\* 255 in the alpha channel of mode m
BufferOf(S, m, W, H) ==
    [p \in Pixels(W, H) |->
        IF p \in S
        THEN LET b == (p[1] * W + p[2]) * 4 + 250
                 ch(k) == IF k = ModeIndex(m, "a") + 1 THEN 255 ELSE (b + k) % 256
             IN  <<ch(1), ch(2), ch(3), ch(4)>>
        ELSE <<0, 0, 0, 0>>]

\* The arguments (x, y, width, height) of refresh and screenshot
CallArgs == { <<0, 0, None, None>>, <<1, 0, Some(1), None>>,
              <<0, 0, Some(65536), None>> }

(***************************************************************************)
(* The state.                                                              *)
(***************************************************************************)
VARIABLES
    pc,       \* "create" (inside Video.create), "idle" (no operation
              \* runs), "type" and "shot" (Client.read called by the user
              \* and by screenshot, waiting for the type byte), "hdr",
              \* "count" and "rects" (inside Client.read: the type byte,
              \* the padding byte, the count has been read), "video"
              \* (inside a Video.read the user called), "failed" (a
              \* coroutine has raised)
    caller,   \* who called the running Client.read: "user" or "screenshot"
    width,    \* Video.width (in create: the local width)
    height,   \* Video.height (in create: the local height)
    mode,     \* Video.mode (in create: the local mode, None before the
              \* table is looked up and when the lookup misses)
    name,     \* Video.name: the text decoded
    data,     \* Video.data: None or Some(buffer)
    zctx,     \* the context of Video.decompress
    wlast,    \* the messages written by the call that began last
    nread,    \* bytes Client.read (or Video.create) itself has consumed
              \* since it was last entered
    vread,    \* bytes consumed by the running Video.read call, or by the
              \* one that raised (0 when there is none)
    vcalls,   \* Video.read calls of the running Client.read that have
              \* ended (0 when none runs)
    part,     \* the bytes of its header (and length field) that the
              \* running Video.read call has read so far; in create, the
              \* length field of the name once read_text has read it
    todo,     \* rectangles of the running update message still to decode
    ret,      \* what the last operation returned: "none", "VIDEO", "RGBA"
    shot,     \* the array the last screenshot returned
    err,      \* the exception raised by the call that ended last, or by
              \* the running read if it has raised ("" when none)
    covered,  \* history: the cells covered by the rectangles decoded since
              \* the buffer was last discarded
    zpay,     \* history: the compressed chunks fed to the decompressor
    zouts,    \* history: what each of them decompressed to
    pre,      \* history: the running screenshot was called with a complete
              \* buffer, and has not read yet
    work,     \* detect_screens: the working mask (the cells still filled),
              \* None when no call runs
    screens   \* detect_screens: the screens accepted by the running call,
              \* or returned by the last one

\* The state of detect_screens
dvars == <<work, screens>>

vars == <<pc, caller, width, height, mode, name, data, zctx, wlast, nread,
          vread, vcalls, part, todo, ret, shot, err, covered, zpay, zouts,
          pre, work, screens>>

\* Video.create has been called and waits for the first byte
Init ==
    /\ pc = "create"
    /\ caller = "user"
    /\ width = 0
    /\ height = 0
    /\ mode = None
    /\ name = <<>>
    /\ data = None
    /\ zctx = <<>>
    /\ wlast = <<>>
    /\ nread = 0
    /\ vread = 0
    /\ vcalls = 0
    /\ part = <<>>
    /\ todo = 0
    /\ ret = "none"
    /\ shot = None
    /\ err = ""
    /\ covered = {}
    /\ zpay = <<>>
    /\ zouts = <<>>
    /\ pre = FALSE
    /\ work = None
    /\ screens = <<>>

(***************************************************************************)
(* Video.create: width, height, the pixel-format record, the padding, the  *)
(* length of the name and the name, each read in an await of its own; the  *)
(* messages are written after the last one.  A create that raises leaves   *)
(* no session behind.                                                      *)
(***************************************************************************)
\* The messages create writes once the mode lookup gave m
CreateWrites(m) ==
    IF m = None THEN <<SetPixelFormatMsg, SetEncodingsMsg>>
    ELSE <<SetEncodingsMsg>>

\* create has read n more bytes and waits for the next ones
CreateWaits(n) ==
    /\ nread' = nread + n
    /\ UNCHANGED <<pc, caller, name, data, zctx, wlast, vread, vcalls, todo,
                   ret, shot, err, covered, zpay, zouts, pre>>
    /\ UNCHANGED dvars

\* width = await read_int(reader, 2)
CreateWidthOf(w) ==
    /\ pc = "create"
    /\ nread = 0
    /\ width' = read_int(U16(w))
    /\ UNCHANGED <<height, mode, part>>
    /\ CreateWaits(2)

\* height = await read_int(reader, 2)
CreateHeightOf(h) ==
    /\ pc = "create"
    /\ nread = 2
    /\ height' = read_int(U16(h))
    /\ UNCHANGED <<width, mode, part>>
    /\ CreateWaits(2)

\* mode_data = await reader.readexactly(13), the flags masked, the lookup
CreateFormatOf(rec) ==
    /\ pc = "create"
    /\ nread = 4
    /\ \E m \in {video_modes_get(MaskFlags(rec))} :
          mode' = IF m = None THEN None ELSE m[1]
    /\ UNCHANGED <<width, height, part>>
    /\ CreateWaits(13)

\* await reader.readexactly(3)  # padding
CreatePadding ==
    /\ pc = "create"
    /\ nread = 17
    /\ UNCHANGED <<width, height, mode, part>>
    /\ CreateWaits(3)

\* Lines 122-128: the fallback to rgba, the messages, the decompressor and
\* the Video object, n name bytes read and text the name decoded
CreateReturns(n, text) ==
    /\ name' = text
    /\ mode' = IF mode = None THEN rgba ELSE mode
    /\ wlast' = CreateWrites(mode)
    /\ zctx' = decompressobj
    /\ data' = None
    /\ pc' = "idle"
    /\ nread' = nread + n
    /\ part' = <<>>
    /\ UNCHANGED <<caller, width, height, vread, vcalls, todo, ret, shot,
                   err, covered, zpay, zouts, pre>>
    /\ UNCHANGED dvars

\* data.decode(encoding) raises on the n name bytes read
CreateRaises(n) ==
    /\ pc' = "failed"
    /\ err' = "UnicodeDecodeError"
    /\ nread' = nread + n
    /\ part' = <<>>
    /\ UNCHANGED <<caller, width, height, mode, name, data, zctx, wlast,
                   vread, vcalls, todo, ret, shot, covered, zpay, zouts,
                   pre>>
    /\ UNCHANGED dvars

\* length = await read_int(reader, 4), of the name nm; readexactly(0), the
\* empty name, returns at once
CreateNameLengthOf(nm) ==
    /\ pc = "create"
    /\ nread = 20
    /\ IF read_int(U32(Len(nm))) = 0
       THEN CreateReturns(4, Utf8Decode(<<>>)[1])
       ELSE /\ part' = U32(Len(nm))
            /\ UNCHANGED <<width, height, mode>>
            /\ CreateWaits(4)

\* data = await reader.readexactly(length), then data.decode(encoding)
CreateNameOf(nm) ==
    /\ pc = "create"
    /\ nread = 24
    /\ part = U32(Len(nm))
    /\ \E text \in {Utf8Decode(nm)} :
          IF text = None
          THEN CreateRaises(Len(nm))
          ELSE CreateReturns(Len(nm), text[1])

\* create on the frame sizes, the pixel-format records and the names given
CreateOf(dims, recs, names) ==
    \/ \E d \in dims : CreateWidthOf(d[1])
    \/ \E d \in dims : d[1] = width /\ CreateHeightOf(d[2])
    \/ \E rec \in recs : CreateFormatOf(rec)
    \/ CreatePadding
    \/ \E nm \in names : CreateNameLengthOf(nm)
    \/ \E nm \in names : CreateNameOf(nm)

Create == CreateOf(Dims, FormatRecords, Names)

\* The framebuffer sizes of session set-up on its own: every frame of at
\* most MaxPixels pixels
CreateDims ==
    {d \in (1 .. MaxPixels) \X (1 .. MaxPixels) : d[1] * d[2] <= MaxPixels}

\* create on any kind of pixel-format record and of name
CreateAny == CreateOf(CreateDims, AllFormatRecords, AllNames)

(***************************************************************************)
(* The awaits.  A coroutine is suspended wherever it waits for bytes:      *)
(* another task may run there, and the stream may end there.               *)
(***************************************************************************)
\* A Video.read call runs: one of the loop of Client.read, or one the user
\* made
InVideoRead ==
    \/ pc = "video"
    \/ pc = "rects" /\ todo > 0

\* A coroutine is suspended in an await.  Once the count or a rectangle is
\* read and no rectangle is left, Client.read returns without waiting.
Suspended ==
    \/ pc \in {"create", "type", "shot", "hdr", "count"}
    \/ InVideoRead

(***************************************************************************)
(* Video.refresh: a plain function of the Video that create returned,      *)
(* called by the user between reads or by another task while a read is     *)
(* suspended.  When an argument does not fit its field, to_bytes raises to *)
(* the caller and nothing is written; the session is as before.            *)
(***************************************************************************)
RefreshOf(a) ==
    /\ pc # "create"
    /\ pc = "idle" \/ Suspended
    /\ UNCHANGED <<pc, caller, width, height, mode, name, data, zctx, nread,
                   vread, vcalls, part, todo, covered, zpay, zouts, pre>>
    /\ ret' = "none"
    /\ shot' = None
    /\ work' = None
    /\ screens' = <<>>
    /\ \E msg \in {RefreshMsg(data, width, height, a[1], a[2], a[3], a[4])} :
          IF msg = None
          THEN /\ err' = "OverflowError"
               /\ wlast' = <<>>
          ELSE /\ err' = ""
               /\ wlast' = <<msg[1]>>

Refresh == \E a \in CallArgs : RefreshOf(a)


(***************************************************************************)
(* Client.screenshot, up to its first read                                 *)
(***************************************************************************)
\* A buggy variant: the buffer is kept
KeepBuffer(d) == d

\* self.video.data = None
Discard(d) == None

\* The buffer is discarded, then refresh writes the request, or raises out
\* of screenshot when an argument does not fit
ScreenshotOf(a) ==
    /\ pc = "idle"
    /\ LET d1 == Discard(data)
              msg == RefreshMsg(d1, width, height, a[1], a[2], a[3], a[4])
          IN  /\ data' = d1
              /\ IF msg = None
                 THEN /\ pc' = "idle"
                      /\ err' = "OverflowError"
                      /\ wlast' = <<>>
                 ELSE /\ pc' = "shot"
                      /\ err' = ""
                      /\ wlast' = <<msg[1]>>
    /\ caller' = "screenshot"
    /\ ret' = "none"
    /\ shot' = None
    /\ covered' = {}
    /\ pre' = is_complete(data, mode)
    /\ UNCHANGED <<width, height, mode, name, zctx, nread, vread, vcalls,
                   part, todo, zpay, zouts>>
    /\ work' = None
    /\ screens' = <<>>

Screenshot == \E a \in CallArgs : ScreenshotOf(a)

(***************************************************************************)
(* Client.read: called by the user (pc = "type") or by the loop of         *)
(* screenshot (pc = "shot").  Every await is a step.                       *)
(***************************************************************************)
\* The user calls a coroutine that reads: it runs up to its first await
CallOf(p) ==
    /\ pc = "idle"
    /\ pc' = p
    /\ caller' = "user"
    /\ ret' = "none"
    /\ shot' = None
    /\ err' = ""
    /\ wlast' = <<>>
    /\ nread' = 0
    /\ vread' = 0
    /\ vcalls' = 0
    /\ todo' = 0
    /\ pre' = FALSE
    /\ work' = None
    /\ screens' = <<>>
    /\ UNCHANGED <<width, height, mode, name, data, zctx, part, covered,
                   zpay, zouts>>

\* The user calls Client.read: it waits for the type byte
ClientReadCall == CallOf("type")

\* A buggy variant: every byte is taken for an update type
AnyUpdateType(t) == TRUE

\* UpdateType(value): VIDEO = 0 is the only member
IsUpdateType(t) == t = 0

\* update_type = UpdateType(await read_int(self.reader, 1))
ReadUpdateTypeOf(t) ==
    /\ pc \in {"type", "shot"}
    /\ IF IsUpdateType(read_int(<<t>>))
       THEN pc' = "hdr" /\ err' = ""
       ELSE pc' = "failed" /\ err' = "ValueError: UpdateType"
    /\ ret' = "none"
    /\ shot' = None
    /\ nread' = 1
    /\ vread' = 0
    /\ vcalls' = 0
    /\ todo' = 0
    /\ pre' = FALSE
    /\ UNCHANGED <<caller, width, height, mode, name, data, zctx, wlast,
                   part, covered, zpay, zouts>>
    /\ UNCHANGED dvars

ReadUpdateType == \E t \in UpdateTypeBytes : ReadUpdateTypeOf(t)

\* await self.reader.readexactly(1)  # padding
ReadPadding ==
    /\ pc = "hdr"
    /\ pc' = "count"
    /\ nread' = nread + 1
    /\ UNCHANGED <<caller, width, height, mode, name, data, zctx, wlast,
                   vread, vcalls, part, todo, ret, shot, err, covered, zpay,
                   zouts, pre>>
    /\ UNCHANGED dvars

\* range(await read_int(self.reader, 2))
ReadRectCount ==
    /\ pc = "count"
    /\ \E n \in 0 .. MaxCount : todo' = read_int(U16(n))
    /\ nread' = nread + 2
    /\ pc' = "rects"
    /\ UNCHANGED <<caller, width, height, mode, name, data, zctx, wlast,
                   vread, vcalls, part, ret, shot, err, covered, zpay, zouts,
                   pre>>
    /\ UNCHANGED dvars

(***************************************************************************)
(* Video.read, called from the loop of Client.read (pc = "rects") or by the *)
(* user (pc = "video"): x, y, width, height, encoding, then the body (Raw) *)
(* or the length and the data (ZLib), each read in an await of its own.    *)
(* The buffer and the decompressor change after the last await only.       *)
(***************************************************************************)
\* The user calls Video.read: it waits for x
VideoReadCall == CallOf("video")

\* The bytes that come before the body of rectangle i
Wire(i) ==
    Header(i.g, i.enc) \o (IF i.enc = 6 THEN U32(Len(i.toks)) ELSE <<>>)

\* The server may go on sending rectangle i: what has been read of the
\* running rectangle is the beginning of it
Sending(i) ==
    /\ i.enc = 6 => Len(zpay) < MaxZlib
    /\ Len(part) <= Len(Wire(i))
    /\ SubSeq(Wire(i), 1, Len(part)) = part

\* The encoding of the header read
EncodingOf(hdr) == read_int(SubSeq(hdr, 9, 12))

\* Video.read ends with the outcome r of video_read on rectangle i
VideoReadEnds(r, i) ==
    /\ data' = r.data
    /\ zctx' = r.z
    /\ vread' = IF r.err = "" THEN 0 ELSE r.used
    /\ err' = r.err
    /\ pc' = IF r.err # "" THEN "failed"
             ELSE IF pc = "video" THEN "idle" ELSE "rects"
    /\ todo' = IF r.err = "" /\ pc = "rects" THEN todo - 1 ELSE todo
    /\ covered' = IF r.err = ""
                  THEN covered \cup Region(width, height, i.g.x, i.g.y,
                                           i.g.w, i.g.h)
                  ELSE covered
    /\ zpay' = IF r.fed THEN Append(zpay, i.toks) ELSE zpay
    /\ zouts' = IF r.fed /\ r.err # "zlib.error"
                THEN Append(zouts, r.out)
                ELSE zouts
    /\ vcalls' = IF r.err = "" /\ pc = "video" THEN 0 ELSE vcalls + 1
    /\ part' = <<>>
    /\ UNCHANGED <<caller, width, height, mode, name, wlast, nread, ret,
                   shot, pre>>
    /\ UNCHANGED dvars

\* Video.read waits for the next bytes, having read the first n of
\* rectangle i
VideoReadWaits(i, n) ==
    /\ part' = SubSeq(Wire(i), 1, n)
    /\ vread' = n
    /\ UNCHANGED <<pc, caller, width, height, mode, name, data, zctx, wlast,
                   nread, vcalls, todo, ret, shot, err, covered, zpay, zouts,
                   pre>>
    /\ UNCHANGED dvars

\* x, y, width, height = await read_int(self.reader, 2), one at a time
VideoReadFieldOf(i) ==
    /\ InVideoRead
    /\ Len(part) < 8
    /\ Sending(i)
    /\ VideoReadWaits(i, Len(part) + 2)

VideoReadField ==
    /\ InVideoRead
    /\ Len(part) < 8
    /\ \E i \in RectInputs(width, height) : VideoReadFieldOf(i)

\* encoding = await read_int(self.reader, 4).  An encoding that is neither
\* Raw nor ZLib raises; readexactly(0), the body of an empty Raw rectangle,
\* returns at once.
VideoReadEncodingOf(i) ==
    /\ InVideoRead
    /\ Len(part) = 8
    /\ Sending(i)
    /\ \E hdr \in {SubSeq(Wire(i), 1, 12)} :
          IF (~IsRaw(EncodingOf(hdr)) /\ ~IsZLib(EncodingOf(hdr)))
             \/ (IsRaw(EncodingOf(hdr)) /\ i.g.h * i.g.w * 4 = 0)
          THEN \E r \in {video_read(data, zctx, mode, width, height, hdr,
                                    <<>>, <<>>, <<>>)} :
                  VideoReadEnds(r, i)
          ELSE VideoReadWaits(i, 12)

VideoReadEncoding ==
    /\ InVideoRead
    /\ Len(part) = 8
    /\ \E i \in RectInputs(width, height) : VideoReadEncodingOf(i)

\* length = await read_int(self.reader, 4), of a ZLib rectangle;
\* readexactly(0), the data of length 0, returns at once
VideoReadLengthOf(i) ==
    /\ InVideoRead
    /\ Len(part) = 12
    /\ ~IsRaw(EncodingOf(part))
    /\ IsZLib(EncodingOf(part))
    /\ Sending(i)
    /\ Len(Wire(i)) = 16
    /\ IF Len(i.toks) = 0
       THEN \E r \in {video_read(data, zctx, mode, width, height, part,
                                 <<>>, SubSeq(Wire(i), 13, 16), i.toks)} :
               VideoReadEnds(r, i)
       ELSE VideoReadWaits(i, 16)

VideoReadLength ==
    /\ InVideoRead
    /\ Len(part) = 12
    /\ \E i \in RectInputs(width, height) : VideoReadLengthOf(i)

\* data = await self.reader.readexactly(...): the body of a Raw rectangle
\* or the compressed data of a ZLib one arrive, and lines 160-167 run
VideoReadOf(i) ==
    /\ InVideoRead
    /\ Len(part) = IF IsRaw(EncodingOf(Wire(i))) THEN 12 ELSE 16
    /\ Len(part) = Len(Wire(i))
    /\ Sending(i)
    /\ \E hdr \in {SubSeq(part, 1, 12)}, raw \in {RawBody(i.g.h * i.g.w * 4)} :
       \E r \in {video_read(data, zctx, mode, width, height, hdr, raw,
                             SubSeq(part, 13, Len(part)), i.toks)} :
           VideoReadEnds(r, i)

VideoRead ==
    /\ InVideoRead
    /\ Len(part) >= 12
    /\ \E i \in RectInputs(width, height) : VideoReadOf(i)

\* A buggy variant: the loop over the rectangles may stop early
ReturnEarly ==
    /\ pc = "rects"
    /\ part = <<>>
    /\ IF caller = "screenshot"
       THEN IF is_complete(data, mode)
            THEN /\ pc' = "idle"
                 /\ ret' = "RGBA"
                 /\ shot' = Some(as_rgba(data, mode, width, height))
            ELSE /\ pc' = "shot"
                 /\ ret' = "none"
                 /\ shot' = None
       ELSE /\ pc' = "idle"
            /\ ret' = "VIDEO"
            /\ shot' = None
    /\ vcalls' = 0
    /\ err' = ""
    /\ UNCHANGED <<caller, width, height, mode, name, data, zctx, wlast,
                   nread, vread, part, todo, covered, zpay, zouts, pre>>
    /\ UNCHANGED dvars

\* Client.read returns the update type; in screenshot the loop then returns
\* the array when the buffer is complete and reads again when it is not
ClientReadReturn ==
    /\ pc = "rects"
    /\ todo = 0
    /\ IF caller = "screenshot"
       THEN IF is_complete(data, mode)
            THEN /\ pc' = "idle"
                 /\ ret' = "RGBA"
                 /\ shot' = Some(as_rgba(data, mode, width, height))
            ELSE /\ pc' = "shot"
                 /\ ret' = "none"
                 /\ shot' = None
       ELSE /\ pc' = "idle"
            /\ ret' = "VIDEO"
            /\ shot' = None
    /\ vcalls' = 0
    /\ err' = ""
    /\ UNCHANGED <<caller, width, height, mode, name, data, zctx, wlast,
                   nread, vread, part, todo, covered, zpay, zouts, pre>>
    /\ UNCHANGED dvars

\* The number of bytes the suspended coroutine waits for
Awaited ==
    IF pc = "create"
    THEN IF nread < 4 THEN 2
         ELSE IF nread = 4 THEN 13
         ELSE IF nread = 17 THEN 3
         ELSE IF nread = 20 THEN 4
         ELSE read_int(part)
    ELSE IF pc \in {"type", "shot", "hdr"} THEN 1
    ELSE IF pc = "count" THEN 2
    ELSE IF Len(part) < 8 THEN 2
    ELSE IF Len(part) = 8 THEN 4
    ELSE IF Len(part) = 16 THEN read_int(SubSeq(part, 13, 16))
    ELSE IF IsRaw(EncodingOf(part))
    THEN read_int(SubSeq(part, 7, 8)) * read_int(SubSeq(part, 5, 6)) * 4
    ELSE 4

\* How many of the n bytes awaited arrive before the stream ends: any
\* number short of n
Arrived(n) == 0 .. n - 1

\* The stream ends where a coroutine waits: readexactly takes the k bytes
\* that have arrived out of the stream and raises IncompleteReadError
StreamEndsOf(k) ==
    /\ Suspended
    /\ pc' = "failed"
    /\ err' = "IncompleteReadError"
    /\ nread' = IF pc = "shot" THEN k
                ELSE IF InVideoRead THEN nread
                ELSE nread + k
    /\ vread' = IF pc = "shot" THEN 0
                ELSE IF InVideoRead THEN vread + k
                ELSE vread
    /\ vcalls' = IF pc = "shot" THEN 0
                 ELSE IF InVideoRead THEN vcalls + 1 ELSE vcalls
    /\ todo' = IF pc = "shot" THEN 0 ELSE todo
    /\ pre' = FALSE
    /\ UNCHANGED <<caller, width, height, mode, name, data, zctx, wlast,
                   part, ret, shot, covered, zpay, zouts>>
    /\ UNCHANGED dvars

StreamEnds == Suspended /\ \E k \in Arrived(Awaited) : StreamEndsOf(k)

Next ==
    \/ Create
    \/ Refresh
    \/ Screenshot
    \/ ClientReadCall
    \/ VideoReadCall
    \/ ReadUpdateType
    \/ ReadPadding
    \/ ReadRectCount
    \/ VideoReadField
    \/ VideoReadEncoding
    \/ VideoReadLength
    \/ VideoRead
    \/ ClientReadReturn
    \/ StreamEnds

Spec == Init /\ [][Next]_vars


(***************************************************************************)
(* The screenshot loop against a server that sends well-formed updates:    *)
(* the type byte is 0 and every rectangle is one that Video.read accepts,  *)
(* so no step raises, and the stream does not end.  The reader runs        *)
(* whenever the bytes it waits for are there (weak fairness of its steps). *)
(* Refresh is left out: it changes neither pc nor anything a step of the   *)
(* reader reads or writes, so it neither disables such a step nor undoes   *)
(* one.                                                                    *)
(***************************************************************************)
\* Video.read accepts rectangle i in the present state: it raises nothing
Accepted(i) ==
    IF IsRaw(i.enc)
    THEN BodyError(width, height, i.g.x, i.g.y, i.g.w, i.g.h,
                   RawBody(i.g.h * i.g.w * 4)) = ""
    ELSE /\ IsZLib(i.enc)
         /\ \E inf \in {Decompress(zctx, i.toks)} :
               /\ inf.ok
               /\ BodyError(width, height, i.g.x, i.g.y, i.g.w, i.g.h,
                            inf.out) = ""

CreateOk == Create /\ pc' # "failed"
ScreenshotOk == Screenshot /\ pc' = "shot"
ShotReadType == pc = "shot" /\ ReadUpdateTypeOf(0)
VideoReadFieldOk ==
    /\ pc = "rects"
    /\ \E i \in RectInputs(width, height) : VideoReadFieldOf(i) /\ Accepted(i)
VideoReadEncodingOk ==
    /\ pc = "rects"
    /\ \E i \in RectInputs(width, height) :
          VideoReadEncodingOf(i) /\ Accepted(i)
VideoReadLengthOk ==
    /\ pc = "rects"
    /\ \E i \in RectInputs(width, height) : VideoReadLengthOf(i) /\ Accepted(i)
VideoReadOk == VideoRead /\ pc' # "failed"

\* The steps of the reader
ReadSteps ==
    \/ ShotReadType
    \/ ReadPadding
    \/ ReadRectCount
    \/ VideoReadFieldOk
    \/ VideoReadEncodingOk
    \/ VideoReadLengthOk
    \/ VideoReadOk
    \/ ClientReadReturn

NextLive ==
    \/ CreateOk
    \/ ScreenshotOk
    \/ ReadSteps

LiveSpec == Init /\ [][NextLive]_vars /\ WF_vars(ReadSteps)

(***************************************************************************)
(* Video.detect_screens and Video.as_rgba, called by the user between      *)
(* reads, on a session whose last update message has been read.            *)
(***************************************************************************)
\* What these calls leave alone, the buffer apart
svars == <<caller, width, height, mode, name, zctx, wlast, nread, vread,
           vcalls, part, todo, err, covered, zpay, zouts, pre>>

\* The session after create and a read that returned: the inputs of
\* detect_screens and as_rgba
DetectInitOf(frames) ==
    /\ pc = "idle"
    /\ caller = "user"
    /\ \E d \in frames :
          /\ width = d[1]
          /\ height = d[2]
          /\ mode \in {bgra, rgba, argb, abgr}
          /\ \E S \in IF d \in BigDims THEN {Pixels(d[1], d[2])}
                       ELSE SUBSET Pixels(d[1], d[2]) :
                /\ data \in {None, Some(BufferOf(S, mode, d[1], d[2]))}
                /\ covered = IF data = None THEN {} ELSE S
    /\ name = <<86, 78, 67>>
    /\ zctx = decompressobj
    /\ wlast = <<>>
    /\ nread = 1 + 1 + 2
    /\ vread = 0
    /\ vcalls = 0
    /\ part = <<>>
    /\ todo = 0
    /\ ret = "VIDEO"
    /\ shot = None
    /\ err = ""
    /\ zpay = <<>>
    /\ zouts = <<>>
    /\ pre = FALSE
    /\ work = None
    /\ screens = <<>>

DetectInit == DetectInitOf(MaskDims \cup BigDims)

\* detect_screens up to the loop: [] at once when there is no buffer
DetectStart ==
    /\ pc = "idle"
    /\ IF data = None
       THEN /\ pc' = "idle"
            /\ ret' = "SCREENS"
            /\ work' = None
       ELSE /\ pc' = "detect"
            /\ ret' = "none"
            /\ work' = Some(Pad(AlphaMask(data[1], mode), width, height))
    /\ screens' = <<>>
    /\ shot' = None
    /\ UNCHANGED data
    /\ UNCHANGED svars

\* One round of the while loop that accepts a candidate
DetectRound ==
    /\ pc = "detect"
    /\ \E sc \in Acceptable(work[1], width, height) :
          /\ work' = Some(ZeroRegion(work[1], sc, width, height))
          /\ screens' = Append(screens, sc)
          /\ data' = BufferAfterRound(data, mode, sc, width, height)
    /\ UNCHANGED <<pc, ret, shot>>
    /\ UNCHANGED svars

\* The round in which no candidate is entirely filled: return screens
DetectReturn ==
    /\ pc = "detect"
    /\ Acceptable(work[1], width, height) = {}
    /\ pc' = "idle"
    /\ ret' = "SCREENS"
    /\ work' = None
    /\ UNCHANGED <<data, screens, shot>>
    /\ UNCHANGED svars

\* A call of as_rgba
AsRgba ==
    /\ pc = "idle"
    /\ ret # "RGBA"
    /\ shot' = Some(as_rgba(data, mode, width, height))
    /\ ret' = "RGBA"
    /\ screens' = <<>>
    /\ UNCHANGED <<pc, data, work>>
    /\ UNCHANGED svars

NextDetect ==
    \/ DetectStart
    \/ DetectRound
    \/ DetectReturn
    \/ AsRgba

DetectSpec == DetectInit /\ [][NextDetect]_vars

\* detect_screens has no await: once called, its loop runs round after round
\* until it returns.  Termination is checked on the frames of at most
\* MaxCells cells.
DetectLive ==
    /\ DetectInitOf(MaskDims)
    /\ [][NextDetect]_vars
    /\ WF_vars(DetectRound \/ DetectReturn)

(***************************************************************************)
(* The session and these calls together: whatever create, refresh,         *)
(* screenshot and the reads reach, detect_screens and as_rgba are called   *)
(* on between reads.                                                       *)
(***************************************************************************)
NextAll ==
    \/ Next
    \/ NextDetect

AllSpec == Init /\ [][NextAll]_vars

(***************************************************************************)
(* Session set-up on its own: create on every kind of pixel-format record  *)
(* and of name, on a stream that may end, then update requests.            *)
(***************************************************************************)
NextCreate ==
    \/ CreateAny
    \/ Refresh
    \/ StreamEnds

CreateSpec == Init /\ [][NextCreate]_vars

(***************************************************************************)
(* Properties.                                                             *)
(***************************************************************************)
AllPixels == Pixels(width, height)
AlphaOf(px) == px[ModeIndex(mode, "a") + 1]

\* C1: when screenshot returns, the buffer exists and every pixel of the
\* whole negotiated frame has alpha 255 and has been covered by a rectangle
\* decoded since the call began, whatever region was requested; the array
\* returned is opaque everywhere.
C1_ScreenshotReturnsComplete ==
    ret = "RGBA" =>
        /\ data # None
        /\ DOMAIN data[1] = AllPixels
        /\ \A p \in AllPixels : AlphaOf(data[1][p]) = 255
        /\ covered = AllPixels
        /\ shot # None
        /\ \A p \in AllPixels : shot[1][p][4] = 255

\* A screenshot of a sub-region (width 1 of a 2 x 2 frame) has returned
C1_Witness ==
    /\ ret = "RGBA"
    /\ width = 2
    /\ height = 2
    /\ wlast = <<(<<3, 0>> \o U16(1) \o U16(0) \o U16(1) \o U16(2))>>

\* C2: is_complete() is true exactly when a buffer exists and the
\* rectangles decoded since the buffer was last discarded cover every pixel
\* of the frame.
C2_CompleteIffCovered ==
    is_complete(data, mode) <=> (data # None /\ covered = AllPixels)

\* Inside a user's read, the second rectangle of a message has just covered
\* the last pixel of a 4-pixel frame
C2_Witness ==
    /\ pc = "rects"
    /\ caller = "user"
    /\ vcalls = 2
    /\ width * height = 4
    /\ is_complete(data, mode)


\* C3: a screenshot call returns once the well-formed updates the server
\* sent after the request cover the frame, however many messages and
\* rectangles they were split across (checked under LiveSpec).
InScreenshot ==
    caller = "screenshot" /\ pc \in {"shot", "hdr", "count", "rects"}
C3_ScreenshotReturns ==
    (InScreenshot /\ covered = AllPixels) ~> (pc = "idle" /\ ret = "RGBA")

\* A 4-pixel frame was covered by four one-pixel rectangles (each pixel
\* holds the first pixel of a Raw body) and the screenshot has returned
C3_Witness ==
    /\ ret = "RGBA"
    /\ width * height = 4
    /\ \A p \in AllPixels, k \in 1 .. 4 :
          k # ModeIndex(mode, "a") + 1 => data[1][p][k] = RawBody(4)[k]


\* C4: every screenshot call discards the buffer before it writes its
\* request: the buffer is gone after the call's first step, the one request
\* it wrote carries incremental = 0 (also when a complete buffer existed),
\* and nothing was read from the stream on the way (an argument that does
\* not fit its field raises before anything is written).
C4_ScreenshotDiscardsFirst ==
    [][\A a \in CallArgs :
          ScreenshotOf(a) =>
              /\ data' = None
              /\ pc' = "shot" =>
                    /\ Len(wlast') = 1
                    /\ Len(wlast'[1]) = 10
                    /\ wlast'[1][1] = 3
                    /\ wlast'[1][2] = 0
              /\ pc' # "shot" =>
                    /\ pc' = "idle"
                    /\ err' = "OverflowError"
                    /\ wlast' = <<>>
              /\ nread' = nread
              /\ vread' = vread
              /\ vcalls' = vcalls]_vars

\* A screenshot called with a complete buffer has written its request and
\* has not read yet
C4_Witness ==
    /\ pc = "shot"
    /\ pre
    /\ data = None
    /\ wlast[1][2] = 0

\* The arguments of a refresh, the defaults applied, each fit the unsigned
\* 16-bit field to_bytes(2, 'big') writes them to
ArgsFit(a) ==
    /\ a[1] \in 0 .. 65535
    /\ a[2] \in 0 .. 65535
    /\ (IF a[3] = None THEN width ELSE a[3][1]) \in 0 .. 65535
    /\ (IF a[4] = None THEN height ELSE a[4][1]) \in 0 .. 65535

\* The request of refresh(x, y, width, height)
RequestOf(a) ==
    <<3, IF data # None THEN 1 ELSE 0>>
        \o U16(a[1]) \o U16(a[2])
        \o U16(IF a[3] = None THEN width ELSE a[3][1])
        \o U16(IF a[4] = None THEN height ELSE a[4][1])

\* C5 as stated: every refresh writes exactly one framebuffer-update
\* request, incremental iff a buffer exists, width and height defaulting to
\* the negotiated ones, and changes neither the buffer nor the read
\* position.
C5_RefreshAlwaysWrites ==
    [][\A a \in CallArgs :
          RefreshOf(a) =>
              /\ Len(wlast') = 1
              /\ Len(wlast'[1]) = 10
              /\ wlast'[1][1] = 3
              /\ wlast'[1][2] = (IF data # None THEN 1 ELSE 0)
              /\ UNCHANGED <<data, nread, vread, part>>]_vars

\* C5: a refresh whose x, y, width and height (the defaults applied) each
\* fit an unsigned 16-bit field raises nothing and writes exactly one
\* framebuffer-update request: incremental is 1 iff a buffer exists at the
\* call, x and y are as passed, width and height default to the negotiated
\* ones.  A refresh with an argument that does not fit raises OverflowError
\* and writes nothing.  Either way the buffer, the decompressor and the
\* read position are unchanged, also when the call is made while a read
\* waits for bytes.
C5_RefreshRequest ==
    [][\A a \in CallArgs :
          /\ (ArgsFit(a) /\ RefreshOf(a)) =>
                /\ err' = ""
                /\ wlast' = <<RequestOf(a)>>
                /\ UNCHANGED <<pc, data, zctx, nread, vread, vcalls, part,
                               todo, covered>>
          /\ (~ArgsFit(a) /\ RefreshOf(a)) =>
                /\ err' = "OverflowError"
                /\ wlast' = <<>>
                /\ UNCHANGED <<pc, data, zctx, nread, vread, vcalls, part,
                               todo, covered>>]_vars

\* refresh(1, 0, 1) was called while Video.read waited for the encoding of
\* the second rectangle of a message: it has written an incremental request
\* for a column of the negotiated height, and the read is where it was
C5_Witness ==
    /\ pc = "rects"
    /\ vcalls = 1
    /\ Len(part) = 8
    /\ vread = 8
    /\ data # None
    /\ wlast = << <<3, 1>> \o U16(1) \o U16(0) \o U16(1) \o U16(height) >>

\* C6: Client.read on an update-type byte other than 0 fails after that one
\* byte: no padding, no rectangle count and no rectangle is read, and the
\* buffer and the decompressor are unchanged.
C6_BadUpdateType ==
    [][\A t \in UpdateTypeBytes :
          (t # 0 /\ ReadUpdateTypeOf(t)) =>
              /\ pc' = "failed"
              /\ err' = "ValueError: UpdateType"
              /\ nread' = 1
              /\ vcalls' = 0
              /\ vread' = 0
              /\ todo' = 0
              /\ UNCHANGED <<data, zctx, covered>>]_vars

\* A read failed on its type byte in a session that holds a buffer
C6_Witness ==
    /\ pc = "failed"
    /\ err = "ValueError: UpdateType"
    /\ nread = 1
    /\ data # None

\* C7: Video.read on a header whose encoding is neither 0 nor 6 raises right
\* after the 12 header bytes: no body byte is consumed, the buffer is as it
\* was (not allocated if it did not exist, no pixel changed if it did), the
\* decompressor is as it was, what earlier rectangles covered stays
\* covered, and no rectangle is decoded afterwards (nothing happens once a
\* read has raised).
C7_UnsupportedEncoding ==
    [][/\ pc # "failed"
       /\ \A i \in RectInputs(width, height) :
             (~(i.enc \in {0, 6}) /\ VideoReadEncodingOf(i)) =>
                 /\ pc' = "failed"
                 /\ err' = "ValueError: encoding"
                 /\ vread = 8
                 /\ vread' = 12
                 /\ UNCHANGED <<data, zctx, covered, todo, zpay, zouts,
                                nread>>]_vars

\* The second rectangle of a message was CopyRect: the first one, a ZLib
\* rectangle, is in the buffer and in the decompressor's window
C7_Witness ==
    /\ pc = "failed"
    /\ err = "ValueError: encoding"
    /\ vcalls = 2
    /\ vread = 12
    /\ data # None
    /\ covered # {}
    /\ zctx # <<>>

\* The concatenation of a sequence of chunks
RECURSIVE Concat(_)
Concat(chunks) ==
    IF chunks = <<>> THEN <<>> ELSE Head(chunks) \o Concat(Tail(chunks))

\* Decoding the first k chunks fed so far as one continuous stream
Continuous(k) == Inflate(decompressobj, Concat(SubSeq(zpay, 1, k)), <<>>)

\* C8: the session has one decompression context, fed every ZLib rectangle
\* in arrival order: what the k-th rectangle decoded to is the k-th segment
\* of decoding all payloads as one continuous stream, the context is the
\* one the continuous decode ends with, and a payload is rejected exactly
\* when the continuous decode rejects it.
C8_OneDecompressor ==
    /\ \A k \in 1 .. Len(zouts) :
          /\ Continuous(k).ok
          /\ Continuous(k).out = Concat(SubSeq(zouts, 1, k))
    /\ zctx = Continuous(Len(zpay)).z
    /\ IF Continuous(Len(zpay)).ok
       THEN Len(zouts) = Len(zpay) /\ err # "zlib.error"
       ELSE Len(zouts) = Len(zpay) - 1 /\ err = "zlib.error"

\* The first rectangle of a message was a ZLib rectangle that is a copy of
\* the four bytes before it: it decoded to the pixel an earlier message sent
C8_Witness ==
    /\ vcalls = 1
    /\ zpay = <<Lit4, Back4>>
    /\ zouts = <<(<<10, 20, 30, 0>>), (<<10, 20, 30, 0>>)>>

\* The rectangle of header geometry g lies inside the buffer
InFrame(g) == g.x + g.w <= width /\ g.y + g.h <= height

\* The value of buffer cell p before a read: zero when no buffer existed
OldPixel(p) == IF data = None THEN <<0, 0, 0, 0>> ELSE data[1][p]

\* C9: after Video.read decodes a Raw rectangle (x, y, w, h) lying inside
\* the buffer, every cell (row, col) of the rectangle holds the bytes of
\* payload pixel (row - y, col - x) in its three colour channels and 255 in
\* the alpha channel of the mode, whatever the payload carried there, and
\* every cell outside the rectangle is as before.
C9_RawPlacement ==
    [][\A i \in RectInputs(width, height) :
          (/\ i.enc = 0
           /\ InFrame(i.g)
           \* implied by the step; it spares evaluating the read for the
           \* rectangles the step cannot have decoded
           /\ covered' = covered \cup Region(width, height, i.g.x, i.g.y,
                                             i.g.w, i.g.h)
           /\ part' = <<>>
           /\ err' = ""
           /\ IF i.g.h * i.g.w = 0
              THEN VideoReadEncodingOf(i)
              ELSE VideoReadOf(i)) =>
              /\ pc' = IF pc = "video" THEN "idle" ELSE "rects"
              /\ data' # None
              /\ DOMAIN data'[1] = AllPixels
              /\ \A payload \in {RawBody(i.g.h * i.g.w * 4)},
                    alpha \in {ModeIndex(mode, "a") + 1} :
                    \A p \in AllPixels :
                        IF /\ i.g.y <= p[1] /\ p[1] < i.g.y + i.g.h
                           /\ i.g.x <= p[2] /\ p[2] < i.g.x + i.g.w
                        THEN \A k \in 1 .. 4 :
                                data'[1][p][k] =
                                    IF k = alpha THEN 255
                                    ELSE payload[((p[1] - i.g.y) * i.g.w
                                                  + (p[2] - i.g.x)) * 4 + k]
                        ELSE data'[1][p] = OldPixel(p)]_vars

\* The first rectangle of a read, the right column of a 2 x 2 frame in mode
\* argb, is in the buffer: the second payload pixel <<0, 1, 2, 3>> is in
\* the lower right cell with its alpha byte (0 in the payload) forced to 255
C9_Witness ==
    /\ pc = "rects"
    /\ vcalls = 1
    /\ width = 2
    /\ height = 2
    /\ mode = argb
    /\ covered = {<<0, 1>>, <<1, 1>>}
    /\ data[1][<<0, 1>>] = <<255, 253, 254, 255>>
    /\ data[1][<<1, 1>>] = <<255, 1, 2, 3>>
    /\ data[1][<<0, 0>>] = <<0, 0, 0, 0>>

\* The last message written
LastWritten(w) == w[Len(w)]

\* The number of SetEncodings messages (type 2) among the messages w
RECURSIVE CountSetEncodings(_)
CountSetEncodings(w) ==
    IF w = <<>> THEN 0
    ELSE (IF Head(w)[1] = 2 THEN 1 ELSE 0) + CountSetEncodings(Tail(w))

\* Video.create returns the session: the step of its last await
CreateReturn == pc = "create" /\ pc' = "idle"

\* C10 as stated: Video.create writes one SetEncodings message announcing
\* two encodings, Raw (0) first and ZLib (6) second (count = 2).
C10_TwoEncodings ==
    [][CreateReturn =>
          /\ CountSetEncodings(wlast') = 1
          /\ read_int(SubSeq(LastWritten(wlast'), 3, 4)) = 2
          /\ Len(LastWritten(wlast')) = 12
          /\ read_int(SubSeq(LastWritten(wlast'), 5, 8)) = 0
          /\ read_int(SubSeq(LastWritten(wlast'), 9, 12)) = 6]_vars

\* C10, amended: after resolving the mode, Video.create writes one
\* SetEncodings message, the last message it writes, and it announces one
\* encoding, ZLib (6): count = 1 and the only id is 6; Raw (0) is not
\* listed.  (A create that raises writes nothing.)
C10_OneEncoding ==
    [][/\ (pc = "create" /\ pc' # "idle") => wlast' = <<>>
       /\ CreateReturn =>
             /\ CountSetEncodings(wlast') = 1
             /\ LastWritten(wlast')[1] = 2
             /\ read_int(SubSeq(LastWritten(wlast'), 3, 4)) = 1
             /\ Len(LastWritten(wlast')) = 4 + 4 * 1
             /\ read_int(SubSeq(LastWritten(wlast'), 5, 8)) = 6]_vars

\* create has run on a format it does not know: SetPixelFormat and then
\* SetEncodings are written
C10_Witness ==
    /\ pc = "idle"
    /\ Len(wlast) = 2
    /\ wlast[1][1] = 0
    /\ wlast[2][1] = 2

\* The label video_modes gives a record, read off the table: 32 bits per
\* pixel, depth 24, true colour, every maximum 255; the big-endian flag and
\* the shifts (red, green, blue) tell the channel order
TableLabel(key) ==
    IF <<key[1], key[2], key[4]>> # <<32, 24, 1>>
       \/ SubSeq(key, 5, 10) # <<0, 255, 0, 255, 0, 255>>
    THEN None
    ELSE IF <<key[3], key[11], key[12], key[13]>> = <<0, 16, 8, 0>> THEN Some(bgra)
    ELSE IF <<key[3], key[11], key[12], key[13]>> = <<0, 0, 8, 16>> THEN Some(rgba)
    ELSE IF <<key[3], key[11], key[12], key[13]>> = <<1, 16, 8, 0>> THEN Some(argb)
    ELSE IF <<key[3], key[11], key[12], key[13]>> = <<1, 0, 8, 16>> THEN Some(abgr)
    ELSE None

\* A record with its two flag bytes cut to their low bit
LowBitFlags(rec) ==
    [k \in 1 .. 13 |-> IF k \in {3, 4} THEN rec[k] % 2 ELSE rec[k]]

\* C11: create never fails on a pixel format.  For every record, when the
\* record with its flag bytes cut to their low bit is in the table, the
\* lookup gives the table's label, the mode of the session is that label
\* and no SetPixelFormat is written; otherwise the lookup misses, the mode
\* is rgba and one SetPixelFormat for the canonical 32-bit RGBA format is
\* written before the SetEncodings message.  The mode is one of bgra, rgba,
\* argb, abgr.  (create raises only when the stream ends or the name is no
\* UTF-8.)
C11_FormatFallback ==
    [][/\ \A rec \in AllFormatRecords :
             CreateFormatOf(rec) =>
                 /\ pc' = "create"
                 /\ err' = ""
                 /\ mode' = IF TableLabel(LowBitFlags(rec)) # None
                            THEN TableLabel(LowBitFlags(rec))[1]
                            ELSE None
       /\ (pc = "create" /\ pc' = "create" /\ nread >= 17) => mode' = mode
       /\ CreateReturn =>
             /\ err' = ""
             /\ mode' \in {bgra, rgba, argb, abgr}
             /\ IF mode # None
                THEN /\ mode' = mode
                     /\ Len(wlast') = 1
                     /\ wlast'[1][1] = 2
                ELSE /\ mode' = rgba
                     /\ Len(wlast') = 2
                     /\ wlast'[1] = <<0, 0, 0, 0>> \o FmtRGBA \o <<0, 0, 0>>
                     /\ wlast'[2][1] = 2
       /\ (pc = "create" /\ pc' = "failed") =>
             err' \in {"IncompleteReadError", "UnicodeDecodeError"}]_vars

\* create has run on a bgra record with stray high bits in its flag bytes:
\* nothing but SetEncodings is written
C11_Witness ==
    /\ pc = "idle"
    /\ nread = 27
    /\ mode = bgra
    /\ width = 4
    /\ Len(wlast) = 1
    /\ wlast[1][1] = 2

\* detect_screens has returned the list screens for the buffer data
Returned == pc = "idle" /\ ret = "SCREENS"

\* The filled cells of the input mask: the cells of the buffer whose alpha
\* byte is 255
FilledCells ==
    IF data = None THEN {}
    ELSE {p \in AllPixels : AlphaOf(data[1][p]) = 255}

\* The cells <<row, col>> of a screen
CellsOf(sc) ==
    (sc.y .. sc.y + sc.height - 1) \X (sc.x .. sc.x + sc.width - 1)

\* Every rectangle of at least one cell inside the frame
FrameRects ==
    UNION { { Screen(x, y, w, h) : w \in 1 .. width - x, h \in 1 .. height - y } :
              x \in 0 .. width - 1, y \in 0 .. height - 1 }

\* The filled cells are exactly the two disjoint rectangles r1 and r2
TwoRects(r1, r2) ==
    /\ CellsOf(r1) \cap CellsOf(r2) = {}
    /\ FilledCells = CellsOf(r1) \cup CellsOf(r2)

\* Two rectangles touch along an edge: a cell of one is the left, right,
\* upper or lower neighbour of a cell of the other
Touching(r1, r2) ==
    \E p \in CellsOf(r1), q \in CellsOf(r2) :
        \/ p[1] = q[1] /\ Abs(p[2] - q[2]) = 1
        \/ p[2] = q[2] /\ Abs(p[1] - q[1]) = 1

\* C12 as stated: a mask that is exactly two disjoint filled rectangles,
\* also two that share a boundary column, gives these two screens and
\* never one merged screen (on the frames of MaskDims).
C12_TwoRectangles ==
    (Returned /\ data # None /\ <<width, height>> \in MaskDims) =>
        \A r1, r2 \in FrameRects :
            TwoRects(r1, r2) =>
                /\ Len(screens) = 2
                /\ {screens[1], screens[2]} = {r1, r2}

\* C12, amended: a mask that is exactly two disjoint filled rectangles
\* that do not touch along an edge gives these two screens; two rectangles
\* that sit side by side and together fill one rectangle, such as
\* (0,0,w,h) and (w,0,w,h), give that one rectangle as a single screen (on
\* the frames of MaskDims).
C12_TwoSeparateRectangles ==
    (Returned /\ data # None /\ <<width, height>> \in MaskDims) =>
        \A r1, r2 \in FrameRects :
            TwoRects(r1, r2) =>
                /\ ~Touching(r1, r2) =>
                      /\ Len(screens) = 2
                      /\ {screens[1], screens[2]} = {r1, r2}
                /\ \A r \in FrameRects :
                      CellsOf(r) = FilledCells => screens = <<r>>

\* Two screens were returned for a mask of two rectangles, one of them two
\* cells wide, with an empty column between them
C12_Witness ==
    /\ Returned
    /\ width = 4
    /\ height = 1
    /\ FilledCells = {<<0, 0>>, <<0, 1>>, <<0, 3>>}
    /\ Len(screens) = 2

\* w : h or h : w is exactly one of 3:2, 4:3, 16:10, 16:9, 32:9, 64:27
ExactlyCanonical(w, h) ==
    \E r \in {<<3, 2>>, <<4, 3>>, <<16, 10>>, <<16, 9>>, <<32, 9>>, <<64, 27>>} :
        w * r[2] = h * r[1] \/ h * r[2] = w * r[1]

\* f is a fraction of denominator at most 64 closest to n/d
Closest(f, n, d) ==
    /\ f[2] <= 64
    /\ \A q \in 1 .. 64 :
          \A p \in {(n * q) \div d, (n * q) \div d + 1} :
              Abs(f[1] * d - n * f[2]) * q <= Abs(p * d - n * q) * f[2]

\* The fractions of denominator at most 64 closest to n/d
ClosestTo(n, d) ==
    { f \in UNION { { Fraction(p, q) :
                         p \in {(n * q) \div d, (n * q) \div d + 1} } :
                     q \in 1 .. 64 } : Closest(f, n, d) }

\* The fraction f is one of 3:2, 4:3, 16:10, 16:9, 32:9, 64:27
IsCanonical(f) ==
    \E r \in {<<3, 2>>, <<4, 3>>, <<16, 10>>, <<16, 9>>, <<32, 9>>, <<64, 27>>} :
        f[1] * r[2] = f[2] * r[1]

\* The smaller of two ints
Min(a, b) == IF a <= b THEN a ELSE b

\* C13 as stated: a fully-filled W x H mask gives the one screen
\* (0, 0, W, H); its score is W*H when W/H or H/W is a canonical ratio and
\* W*H * 0.5 * min(W/H, H/W), which is min(W, H)^2 / 2, otherwise.
C13_FullMaskScore ==
    (Returned /\ data # None /\ FilledCells = AllPixels) =>
        /\ screens = <<Screen(0, 0, width, height)>>
        /\ score(screens[1]) =
              IF ExactlyCanonical(width, height)
              THEN FloatOfInt(width * height)
              ELSE Half(FloatOfInt(Min(width, height) * Min(width, height)))

\* C13, amended: a fully-filled W x H mask gives the one screen
\* (0, 0, W, H); with W/H and H/W each replaced by the closest fraction of
\* denominator at most 64, its score is W*H when one of the two is a
\* canonical ratio, and otherwise the product, in double precision, of W*H
\* and half the float nearest to the smaller of the two (for W, H <= 64
\* the two are W/H and H/W themselves, and a square scores exactly half
\* its area).  The two fractions need not be each other's inverse: 35 x 83
\* gives 27/64 and 83/35, neither of them canonical, and 129 x 1 gives 129
\* and 0, hence the score 0.0.  1366 / 768 is limited to 16/9.
C13_FullMaskScoreLimited ==
    (Returned /\ data # None /\ FilledCells = AllPixels) =>
        /\ screens = <<Screen(0, 0, width, height)>>
        /\ \E f \in ClosestTo(width, height), g \in ClosestTo(height, width) :
              score(screens[1]) =
                  IF \E r \in {f, g} : IsCanonical(r)
                  THEN FloatOfInt(width * height)
                  ELSE IF MinFraction(f, g)[1] = 0 THEN Zero
                  ELSE FloatMulInt(width * height,
                                   Half(FloatDiv(MinFraction(f, g)[1],
                                                 MinFraction(f, g)[2])))
        /\ (width <= 64 /\ height <= 64) =>
              /\ ClosestTo(width, height) = {Fraction(width, height)}
              /\ width = height =>
                    score(screens[1]) = Half(FloatOfInt(width * height))
        /\ (width = 65 /\ height = 64) =>
              score(screens[1]) = FloatDiv(65 * 63, 2)
        /\ (width = 35 /\ height = 83) =>
              /\ ClosestTo(width, height) = {<<27, 64>>}
              /\ ClosestTo(height, width) = {<<83, 35>>}
              /\ score(screens[1]) = FloatMulInt(35 * 83, FloatDiv(27, 128))
        /\ (width = 129 /\ height = 1) =>
              /\ ClosestTo(height, width) = {<<0, 1>>}
              /\ score(screens[1]) = Zero
              /\ ClosestTo(1366, 768) = {<<16, 9>>}
              /\ limit_denominator(Fraction(1366, 768), 64) = <<16, 9>>

\* The 5 x 39 frame, every cell written, gave one screen: it scores
\* 12.499999999999998, the float just below 25 / 2
C13_Witness ==
    /\ Returned
    /\ width = 5
    /\ height = 39
    /\ screens = <<Screen(0, 0, 5, 39)>>
    /\ score(screens[1]) = <<3, 2 ^ 16 + 2 ^ 15 + 2 ^ 12 - 1, Limb - 1, Limb - 1>>
    /\ ScoreLess(score(screens[1]), Half(FloatOfInt(25)))

\* The filled cells of the working mask
WorkFilled == IF work = None THEN {} ELSE {q \in DOMAIN work[1] : work[1][q] = 1}

\* C14: detect_screens terminates on every mask: a round that accepts a
\* candidate appends one screen and zeroes at least one filled cell of the
\* working mask, so that the number of its filled cells strictly decreases;
\* a round that accepts nothing ends the loop; the number of screens never
\* exceeds the number of filled cells of the input mask; and every call
\* returns.
C14_Terminates ==
    /\ [][(pc = "detect" /\ pc' = "detect") =>
              /\ Len(screens') = Len(screens) + 1
              /\ CellsOf(screens'[Len(screens')]) # {}
              /\ \A c \in CellsOf(screens'[Len(screens')]) :
                    /\ work[1][<<c[1] + 1, c[2] + 1>>] = 1
                    /\ work'[1][<<c[1] + 1, c[2] + 1>>] = 0
              /\ WorkFilled' \subseteq WorkFilled
              /\ Cardinality(WorkFilled') < Cardinality(WorkFilled)]_vars
    /\ [][(pc = "detect" /\ Acceptable(work[1], width, height) = {}) =>
              (pc' = "idle" /\ ret' = "SCREENS" /\ screens' = screens)]_vars
    /\ [](Len(screens) <= Cardinality(FilledCells))
    /\ [](pc = "detect" => WorkFilled \subseteq
              {<<c[1] + 1, c[2] + 1>> : c \in FilledCells})
    /\ (pc = "detect" ~> Returned)

\* Three separate cells gave three screens: as many screens as filled cells
C14_Witness ==
    /\ Returned
    /\ Cardinality(FilledCells) = 3
    /\ Len(screens) = 3

\* The lists of screens the loop of detect_screens can build from the
\* padded mask P
RECURSIVE Runs(_, _, _)
Runs(P, W, H) ==
    UNION { IF acc = {} THEN {<<>>}
            ELSE UNION { { <<sc>> \o r :
                             r \in Runs(ZeroRegion(P, sc, W, H), W, H) } :
                         sc \in acc } :
            acc \in {Acceptable(P, W, H)} }

\* What a call of detect_screens on the buffer d can return
ResultsOn(d, m, W, H) ==
    IF d = None THEN {<<>>} ELSE Runs(Pad(AlphaMask(d[1], m), W, H), W, H)

\* A step of detect_screens
DetectStep == pc = "detect" \/ pc' = "detect" \/ ret' = "SCREENS"

\* C15: detect_screens leaves the session as it found it: no step of it
\* changes a byte of the buffer, the mode, the dimensions or is_complete();
\* an accepting round changes the working copy only; and what a call
\* returns is a result of the procedure on the buffer as it is after the
\* call, so that a second call starts from the same mask as the first.
C15_SessionUnchanged ==
    /\ [][DetectStep =>
              /\ data' = data
              /\ mode' = mode
              /\ width' = width
              /\ height' = height
              /\ is_complete(data', mode') = is_complete(data, mode)
              /\ svars' = svars]_vars
    /\ [][(pc = "idle" /\ DetectStep /\ data # None) =>
              /\ work' = Some(Pad(AlphaMask(data[1], mode), width, height))
              /\ screens' = <<>>]_vars
    /\ [][(pc = "detect" /\ pc' = "detect") =>
              (work' # work /\ data' = data)]_vars
    /\ [](Returned => /\ work = None
                      /\ screens \in ResultsOn(data, mode, width, height))

\* A complete buffer is still complete after a call that consumed all of it
C15_Witness ==
    /\ Returned
    /\ data # None
    /\ width * height > 1
    /\ is_complete(data, mode)
    /\ Len(screens) = 1
    /\ CellsOf(screens[1]) = AllPixels

\* The position (from 1) of the channel ch in the mode string
PositionOf(ch) == CHOOSE i \in 1 .. 4 : mode[i] = ch

\* C16: in each of the four modes as_rgba returns an array of the height
\* and width of the buffer in which channels 0, 1, 2, 3 of a pixel are the
\* buffer's bytes at the positions of 'r', 'g', 'b', 'a' in the mode
\* string, so that the inverse permutation of the result is the buffer;
\* without a buffer it returns zeros of shape height x width x 4.
C16_AsRgbaPermutes ==
    (pc = "idle" /\ ret = "RGBA") =>
        /\ shot # None
        /\ mode \in {bgra, rgba, argb, abgr}
        /\ DOMAIN shot[1] = (0 .. height - 1) \X (0 .. width - 1)
        /\ \A p \in DOMAIN shot[1] : Len(shot[1][p]) = 4
        /\ IF data = None
           THEN \A p \in DOMAIN shot[1] : shot[1][p] = <<0, 0, 0, 0>>
           ELSE /\ DOMAIN data[1] = DOMAIN shot[1]
                /\ \A p \in DOMAIN shot[1] :
                      /\ shot[1][p][1] = data[1][p][PositionOf("r")]
                      /\ shot[1][p][2] = data[1][p][PositionOf("g")]
                      /\ shot[1][p][3] = data[1][p][PositionOf("b")]
                      /\ shot[1][p][4] = data[1][p][PositionOf("a")]
                /\ [p \in DOMAIN shot[1] |->
                       [i \in 1 .. 4 |->
                           shot[1][p][CHOOSE k \in 1 .. 4 : rgba[k] = mode[i]]]]
                   = data[1]

\* as_rgba of an argb buffer with written pixels: the channels have moved
C16_Witness ==
    /\ pc = "idle"
    /\ ret = "RGBA"
    /\ mode = argb
    /\ data # None
    /\ FilledCells # {}
    /\ shot # None
    /\ shot[1] # data[1]
    /\ \E p \in FilledCells : shot[1][p][4] = 255 /\ data[1][p][1] = 255

\* C17: Client.read on a Video message reads the type byte, then the
\* padding byte, then the 2-byte count N (4 bytes in all, todo = N and no
\* call of Video.read ended yet); after that the only reads are those of
\* Video.read calls, one call at a time, and each call that returns takes
\* one rectangle off todo; Client.read returns, with the Video update
\* type, only when todo is 0, that is after exactly N calls, and reads or
\* writes nothing in that step; with N = 0 the buffer is as it was.
C17_ReadsCountRectangles ==
    [][/\ (pc \in {"type", "shot"} /\ pc' = "hdr") =>
             /\ nread' = 1
             /\ vcalls' = 0
             /\ UNCHANGED <<data, zctx, part>>
       /\ (pc = "hdr" /\ pc' # "hdr") =>
             /\ pc' \in {"count", "failed"}
             /\ pc' = "count" => (nread = 1 /\ nread' = 2)
             /\ vcalls = 0 /\ vcalls' = 0
             /\ UNCHANGED <<data, zctx, vread, todo, part>>
       /\ (pc = "count" /\ pc' # "count") =>
             /\ pc' \in {"rects", "failed"}
             /\ pc' = "rects" =>
                   (nread = 2 /\ nread' = 4 /\ todo' \in 0 .. 65535)
             /\ vcalls = 0 /\ vcalls' = 0
             /\ UNCHANGED <<data, zctx, vread, part>>
       /\ (pc = "rects" /\ pc' = "rects") =>
             /\ todo > 0
             /\ nread' = nread
             /\ IF vcalls' # vcalls
                THEN /\ vcalls' = vcalls + 1
                     /\ todo' = todo - 1
                     /\ part' = <<>>
                ELSE /\ todo' = todo
                     /\ data' = data
                     /\ zctx' = zctx
                     /\ Len(part') >= Len(part)
                     /\ SubSeq(part', 1, Len(part)) = part
                     /\ vread' = Len(part')
       /\ (pc = "rects" /\ pc' = "failed") =>
             /\ todo > 0
             /\ vcalls' = vcalls + 1
             /\ err' # ""
       /\ (pc = "rects" /\ pc' \in {"idle", "shot"}) =>
             /\ todo = 0
             /\ part = <<>>
             /\ nread = 4 /\ nread' = nread /\ vread' = vread
             /\ data' = data /\ zctx' = zctx /\ covered' = covered
             /\ err' = ""
             /\ caller = "user" => (pc' = "idle" /\ ret' = "VIDEO")
       /\ (pc = "rects" /\ todo = 0) => pc' \in {"idle", "shot"}
       /\ (pc = "rects" /\ todo > 0) => pc' \in {"rects", "failed"}]_vars

\* A message of two rectangles, both read, and Client.read about to return
C17_Witness ==
    /\ pc = "rects"
    /\ caller = "user"
    /\ nread = 4
    /\ todo = 0
    /\ vcalls = 2
    /\ err = ""

\* The single-pass procedure: the candidates cands are fixed; the best
\* remaining one that is still entirely filled in the working copy P is
\* accepted and consumed, until there is none
RECURSIVE SinglePass(_, _, _, _)
SinglePass(P, cands, W, H) ==
    UNION { IF best = {} THEN {<<>>}
            ELSE UNION { { <<sc>> \o r :
                             r \in SinglePass(ZeroRegion(P, sc, W, H),
                                              cands \ {sc}, W, H) } :
                         sc \in best } :
            best \in { {sc \in ok : \A o \in ok :
                                       ~ScoreLess(score(sc), score(o))} :
                       ok \in {{sc \in cands : AllFilled(P, sc, W, H)}} } }

\* The padded mask of the buffer
InputMask == Pad(AlphaMask(data[1], mode), width, height)

\* C18 as stated: detect_screens returns what the single-pass procedure
\* returns, corners and candidates being computed once from the input mask;
\* no returned screen is other than a candidate of the input mask.
C18_SinglePass ==
    (Returned /\ data # None /\ <<width, height>> \in MaskDims) =>
        /\ screens \in SinglePass(InputMask,
                                  Candidates(InputMask, width, height),
                                  width, height)
        /\ \A i \in 1 .. Len(screens) :
              screens[i] \in Candidates(InputMask, width, height)

\* The cells still filled in the working copy, as cells of the frame
WorkCells == {<<q[1] - 1, q[2] - 1>> : q \in WorkFilled}

\* The corner cells of a set of cells F: filled, with nothing filled on the
\* two outer sides
TopLeftCells(F) ==
    {c \in F : <<c[1], c[2] - 1>> \notin F /\ <<c[1] - 1, c[2]>> \notin F}
TopRightCells(F) ==
    {c \in F : <<c[1], c[2] + 1>> \notin F /\ <<c[1] - 1, c[2]>> \notin F}
BottomLeftCells(F) ==
    {c \in F : <<c[1], c[2] - 1>> \notin F /\ <<c[1] + 1, c[2]>> \notin F}
BottomRightCells(F) ==
    {c \in F : <<c[1], c[2] + 1>> \notin F /\ <<c[1] + 1, c[2]>> \notin F}

\* The candidates of F: the rectangles of the frame at least three of whose
\* corner cells are corners of F of the matching kind
CornerCandidates(F) ==
    {r \in FrameRects :
        LET tl == <<r.y, r.x>> \in TopLeftCells(F)
            tr == <<r.y, r.x + r.width - 1>> \in TopRightCells(F)
            bl == <<r.y + r.height - 1, r.x>> \in BottomLeftCells(F)
            br == <<r.y + r.height - 1, r.x + r.width - 1>>
                      \in BottomRightCells(F)
        IN  \/ tl /\ tr /\ bl
            \/ tl /\ tr /\ br
            \/ tl /\ bl /\ br
            \/ tr /\ bl /\ br}

\* The candidates of F that are entirely filled
FilledCandidates(F) == {r \in CornerCandidates(F) : CellsOf(r) \subseteq F}

\* C18, amended: detect_screens works in rounds, and every round computes
\* the corners and the candidates anew from the working copy as the earlier
\* rounds left it: the first round works on the input mask; a round accepts
\* a candidate of the working copy that is entirely filled and that no
\* other entirely filled candidate outscores, and consumes it; the loop
\* stops in the first round that finds no entirely filled candidate.  A
\* returned screen after the first need not be a candidate of the input
\* mask.
C18_Rounds ==
    /\ [][(pc = "detect" /\ <<width, height>> \in MaskDims) =>
              IF FilledCandidates(WorkCells) = {}
              THEN pc' = "idle" /\ ret' = "SCREENS" /\ screens' = screens
              ELSE /\ pc' = "detect"
                   /\ Len(screens') = Len(screens) + 1
                   /\ SubSeq(screens', 1, Len(screens)) = screens
                   /\ screens'[Len(screens')] \in FilledCandidates(WorkCells)
                   /\ \A o \in FilledCandidates(WorkCells) :
                         ~ScoreLess(score(screens'[Len(screens')]), score(o))
                   /\ WorkCells' = WorkCells \ CellsOf(screens'[Len(screens')])
          ]_vars
    /\ []((pc = "detect" /\ screens = <<>>) => WorkCells = FilledCells)
    /\ []((pc = "detect" /\ <<width, height>> \in MaskDims) =>
              Candidates(work[1], width, height) = CornerCandidates(WorkCells))

\* The mask of three cells in a 2 x 2 frame: the second screen is the cell
\* the first one left over, which is no candidate of the input mask
C18_Witness ==
    /\ Returned
    /\ width = 2
    /\ height = 2
    /\ Cardinality(FilledCells) = 3
    /\ Len(screens) = 2
    /\ screens[2] \notin Candidates(InputMask, width, height)
    /\ screens[1] \in Candidates(InputMask, width, height)

\* C19: the screens of detect_screens each have width >= 1 and
\* height >= 1, lie inside the frame, cover only cells that are filled in
\* the input mask, and no cell belongs to two of them; a buffer with no
\* filled cell, or no buffer, gives the empty list and no error.
C19_ScreensWellFormed ==
    /\ \A i \in 1 .. Len(screens) :
          /\ screens[i].width >= 1
          /\ screens[i].height >= 1
          /\ screens[i].x >= 0
          /\ screens[i].y >= 0
          /\ screens[i].x + screens[i].width <= width
          /\ screens[i].y + screens[i].height <= height
          /\ CellsOf(screens[i]) \subseteq FilledCells
          /\ \A j \in 1 .. Len(screens) :
                i # j => CellsOf(screens[i]) \cap CellsOf(screens[j]) = {}
    /\ (pc = "detect" /\ FilledCells = {}) => screens = <<>>
    /\ (Returned /\ FilledCells = {}) =>
          (screens = <<>> /\ err = "" /\ pc = "idle")

\* Five of six cells were filled and two screens came back
C19_Witness ==
    /\ Returned
    /\ width * height = 6
    /\ Cardinality(FilledCells) = 5
    /\ Len(screens) = 2
    /\ CellsOf(screens[1]) \cup CellsOf(screens[2]) = FilledCells

\* The pixels of the buffer d whose alpha byte is 255
Written(d) ==
    IF d = None THEN {}
    ELSE {p \in DOMAIN d[1] : d[1][p][ModeIndex(mode, "a") + 1] = 255}

\* C20: a buffer that exists has the shape height x width x 4 negotiated
\* at create, and the alpha byte of each of its pixels is 0 or 255; the
\* width and the height never change after create; as long as the buffer
\* is not discarded the set of pixels of alpha 255 only grows, whichever of
\* Video.read, refresh, as_rgba and detect_screens takes the step; and the
\* buffer becomes absent only in the first step of screenshot.
C20_BufferShape ==
    /\ [](data # None =>
             /\ pc # "create"
             /\ DOMAIN data[1] = (0 .. height - 1) \X (0 .. width - 1)
             /\ \A p \in DOMAIN data[1] :
                   /\ Len(data[1][p]) = 4
                   /\ data[1][p][ModeIndex(mode, "a") + 1] \in {0, 255}
                   /\ \A k \in 1 .. 4 : data[1][p][k] \in 0 .. 255)
    /\ [][pc # "create" =>
             (width' = width /\ height' = height /\ mode' = mode)]_vars
    /\ [][(data # None /\ data' # None) =>
             /\ DOMAIN data'[1] = DOMAIN data[1]
             /\ Written(data) \subseteq Written(data')]_vars
    /\ [][(data # None /\ data' = None) =>
             /\ pc = "idle"
             /\ caller' = "screenshot"
             /\ pc' \in {"shot", "idle"}
             /\ covered' = {}]_vars
    /\ [][(pc = "rects" /\ pc' \in {"idle", "shot"}) => data' = data]_vars
    /\ [][NextDetect => data' = data]_vars

\* A read of the user wrote two pixels or more of the buffer and returned,
\* then as_rgba was called on the buffer, of which a part is not written
\* yet: what was written is still there
C20_Witness ==
    /\ pc = "idle"
    /\ ret = "RGBA"
    /\ shot # None
    /\ caller = "user"
    /\ data # None
    /\ nread = 4
    /\ err = ""
    /\ Cardinality(Written(data)) >= 2
    /\ Written(data) = covered
    /\ Written(data) # AllPixels

=============================================================================
